---- MODULE Spec2Model ----
(***************************************************************************)
(* CraftLog (VS Code extension): the session telemetry engine.             *)
(*                                                                         *)
(*   LogWriter        src/src/types.ts 720-905      (logWriter.ts)         *)
(*   session commands src/unnamed/part_000          (extension.ts)         *)
(*   SnapshotHandler  src/src/snapshotHandler.ts                           *)
(*   EditTracker      src/unnamed/part_001 12-235   (editTracker.ts)       *)
(*                                                                         *)
(* The program runs on the Node.js event loop.  A synchronous stretch of   *)
(* code (a command up to its first await, a callback, the code between two *)
(* awaits) is one action.  A continuation whose promise is already settled *)
(* is a microtask: while the set `ready` is non-empty only microtasks run, *)
(* in any order; commands, timers, the clock and I/O completions are       *)
(* macrotasks and run only when `ready` is empty.                          *)
(***************************************************************************)
EXTENDS Integers, Sequences, FiniteSets, TLC

VARIABLES
  writers,    \* heap of LogWriter objects (a sequence, index = object identity)
  streams,    \* heap of fs.WriteStream objects
  disk,       \* file name -> sequence of records (lines) on disk
  handed,     \* history: writer -> the records passed to write(), in call order
  issued,     \* history: number of write() calls so far (gives each record its id)
  tasks,      \* running async functions: slot -> frame
  ready,      \* slots whose continuation is queued as a microtask
  now,        \* Date.now()
  sessionState, logWriter, editTracker, aiPromptHandler, snapshotHandler,
  fileWatcher,    \* the module-level variables of extension.ts: NULL or an object
  sess,       \* heap of SessionState objects
  hs,         \* heap of handler sets (EditTracker, AIPromptHandler,
              \* SnapshotHandler, FileWatcher built together by start/resume)
  savedSession,   \* workspaceState 'craftlog.savedSession': NoSaved or a record
  sidCount,   \* session ids generated so far
  called,      \* the command whose call was observed in the last step, "" if none
  previousWorkspaceFiles, \* SnapshotHandler: the file map of the previous scan
  currentFileMap,         \* workspaceStats.fileMap of the scan just made
  diffEvent,              \* the workspace_diff event of the last snapshot, if any
  statsCache,     \* SnapshotHandler: the cached scan, or NoCache
  snapshotTimer,  \* SnapshotHandler: NULL or the id setInterval returned
  intervals,      \* the interval timers that are live in the runtime
  started,        \* startSession/resumeSession has reached lines 443-446
  calls,          \* takeSnapshot() calls in flight: slot -> frame
  workspace,      \* the files of the workspace folder as a scan would read them
  quietRun,       \* history: where a run of calls without file changes stands:
                  \* "first" call running, "between" two calls, "second" call
                  \* running ("...Stale": the call before used an outdated scan)
  scanned,        \* history: some takeSnapshot() has completed on this handler
  storePromptText,    \* the setting craftlog.storePromptText
  prompters,      \* heap of AIPromptHandler objects
  prompter,       \* the module-level aiPromptHandler: NULL or an index of prompters
  promptCalls,    \* AIPromptHandler.markAIPrompt() calls in flight: slot -> frame
  promptEvent     \* the last ai_prompt event handed to the writer, with history

wvars == <<writers, streams, disk, handed, issued>>
tvars == <<tasks, ready>>
gvars == <<sessionState, logWriter, editTracker, aiPromptHandler, snapshotHandler,
           fileWatcher>>
svars == <<now, gvars, sess, hs, savedSession, sidCount>>
cvars == <<statsCache, snapshotTimer, intervals, started, calls, workspace, quietRun,
           scanned>>
pvars == <<storePromptText, prompters, prompter, promptCalls, promptEvent>>
dvars == <<previousWorkspaceFiles, currentFileMap, diffEvent, cvars, pvars>>
vars  == <<wvars, tvars, svars, called, dvars>>

NULL == 0
\* lastPauseTime: null
NoTime == -1

\* ------------------------------------------------------------------ bounds
MaxWrites == 4        \* write() calls in one behaviour
MaxTasks  == 2        \* async functions in flight at once
MaxSid    == 2        \* session ids generated (log base names)
MaxGen    == 2        \* startSession/resumeSession calls that build objects
MaxTime   == 1        \* clock readings after the first
MaxPast   == 3        \* how long before this process a restored session began

\* ------------------------------------------------- program constants (scaled)
\* config.maxFileSizeMB * 1024 * 1024, in model bytes
MaxBytes == 3
\* highWaterMark of the write stream (16 * 1024), in model bytes
HighWaterMark == 2

Sizes   == {1, 3}                      \* Buffer.byteLength(line) of a record
Slots   == 1..MaxTasks
MaxIdx  == MaxWrites + MaxTasks + 1
Files   == (1..MaxSid) \X (0..MaxIdx)

\* ------------------------------------------------------------- sequences
RECURSIVE SumSz(_)
SumSz(q) == IF q = <<>> THEN 0 ELSE Head(q).sz + SumSz(Tail(q))

RECURSIVE ConcatUpTo(_, _)
\* f[0] \o f[1] \o ... \o f[n]
ConcatUpTo(f, n) == IF n < 0 THEN <<>> ELSE ConcatUpTo(f, n - 1) \o f[n]

RECURSIVE SelectStreams(_, _, _)
\* the queues of the streams open on `file`, oldest stream first
SelectStreams(ss, file, k) ==
  IF k > Len(ss) THEN <<>>
  ELSE (IF ss[k].file = file THEN ss[k].q ELSE <<>>) \o SelectStreams(ss, file, k + 1)

\* ---------------------------------------------------------------- records
\* JSON.stringify(event) + '\n' : one line, `sz` bytes long
\* id: position in the order of write() calls (history); el: elapsed_ms, NoTime
\* when the event object has no such field; x: the fields particular to the kind
Line(id, ev, sid, ts, el, sz, x) ==
  [id |-> id, ev |-> ev, sid |-> sid, ts |-> ts, el |-> el, sz |-> sz, x |-> x]

\* ------------------------------------------------------- fs.WriteStream
\* fs.createWriteStream(path, {flags: 'a'}) : appends, never truncates
createWriteStream(w, file) ==
  [w |-> w, file |-> file, q |-> <<>>, ending |-> FALSE, destroyed |-> FALSE,
   needDrain |-> FALSE, finished |-> FALSE]

\* a chunk written through a stream opened at position 0 of the file
WriteToFile_FromStart(content, rec) == <<rec>>

\* a chunk written through a stream opened with flags 'a': it goes to the end
\* of what the file holds
WriteToFile(content, rec) == Append(content, rec)

\* stream.end(): what is queued is still written; 'finish' follows at once
\* when nothing is queued
StreamEnd(s) ==
  [s EXCEPT !.ending = TRUE,
            !.finished = @ \/ (s.q = <<>> /\ ~s.destroyed)]

\* ------------------------------------------------------------- LogWriter
\* the rotated file name: base, or base_<index> before the extension
LogFilePath(wr) == <<wr.base, wr.fileIndex>>

FileSize(d, file) == SumSz(d[file])

closeStream_Destroy(st, w) ==
  LET k == st.ws[w].writeStream IN
  IF k # NULL
  THEN [ws |-> [st.ws EXCEPT ![w].writeStream = NULL,
                             ![w].pendingWrites = @ - Len(st.ss[k].q)],
        ss |-> [st.ss EXCEPT ![k].q = <<>>, ![k].ending = TRUE,
                             ![k].destroyed = TRUE]]
  ELSE st

closeStream(st, w) ==
  LET k == st.ws[w].writeStream IN
  IF k # NULL
  THEN [ws |-> [st.ws EXCEPT ![w].writeStream = NULL],
        ss |-> [st.ss EXCEPT ![k] = StreamEnd(@)]]
  ELSE st

openStream(st, w) ==
  LET st1 == closeStream(st, w)
      k   == Len(st1.ss) + 1
  IN [ws |-> [st1.ws EXCEPT ![w].writeStream = k],
      ss |-> Append(st1.ss, createWriteStream(w, LogFilePath(st1.ws[w])))]

\* rotateIfNeeded without `this.currentFileSize = 0`
rotateIfNeeded_KeepSize(st, w) ==
  IF st.ws[w].currentFileSize >= MaxBytes
  THEN LET st1 == closeStream(st, w)
           st2 == [ws |-> [st1.ws EXCEPT ![w].fileIndex = @ + 1],
                   ss |-> st1.ss]
       IN openStream(st2, w)
  ELSE st

rotateIfNeeded(st, w) ==
  IF st.ws[w].currentFileSize >= MaxBytes
  THEN LET st1 == closeStream(st, w)
           st2 == [ws |-> [st1.ws EXCEPT ![w].fileIndex = @ + 1,
                                         ![w].currentFileSize = 0],
                   ss |-> st1.ss]
       IN openStream(st2, w)
  ELSE st

\* new LogWriter(logFilePath, config): size from the file on disk, then open
NewLogWriter(st, d, base) ==
  LET w  == Len(st.ws) + 1
      wr == [base |-> base, fileIndex |-> 0,
             currentFileSize |-> FileSize(d, <<base, 0>>),
             pendingWrites |-> 0, pendingResolvers |-> {},
             drainPromise |-> FALSE, writeStream |-> NULL]
  IN openStream([ws |-> Append(st.ws, wr), ss |-> st.ss], w)

\* LogWriter.write(event)
write(st, w, rec) ==
  LET st1 == IF st.ws[w].writeStream = NULL THEN openStream(st, w) ELSE st
      st2 == rotateIfNeeded(st1, w)
      k   == st2.ws[w].writeStream
      s   == st2.ss[k]
      \* a write after end() is refused: its callback gets the error at once
      accepted    == ~(s.ending \/ s.destroyed)
      canContinue == accepted /\ SumSz(s.q) + rec.sz < HighWaterMark
  IN [ws |-> [st2.ws EXCEPT
                ![w].pendingWrites   = IF accepted THEN @ + 1 ELSE @,
                ![w].currentFileSize = @ + rec.sz,
                ![w].drainPromise    = @ \/ ~canContinue],
      ss |-> [st2.ss EXCEPT
                ![k].q         = IF accepted THEN Append(@, rec) ELSE @,
                ![k].destroyed = @ \/ ~accepted,
                ![k].needDrain = @ \/ (accepted /\ ~canContinue)]]

forceFlushPending_NoWait(wr, t) == [wr |-> wr, pc |-> "ff_after"]

\* LogWriter.forceFlush(), from its second test on
forceFlushPending(wr, t) ==
  IF wr.pendingWrites > 0
  THEN [wr |-> [wr EXCEPT !.pendingResolvers = @ \cup {t}], pc |-> "ff_pend"]
  ELSE [wr |-> wr, pc |-> "ff_after"]

forceFlush_NoPendingWait(wr, t) ==
  IF wr.drainPromise
  THEN [wr |-> wr, pc |-> "ff_drain"]
  ELSE [wr |-> wr, pc |-> "ff_after"]

\* LogWriter.forceFlush(), up to its first await
forceFlush(wr, t) ==
  IF wr.drainPromise
  THEN [wr |-> wr, pc |-> "ff_drain"]
  ELSE forceFlushPending(wr, t)

\* ------------------------------------------------------------------ tasks
\* positions at which a frame waits for an event of the event loop
WaitPcs == {"ff_drain", "ff_pend", "cl_wait",
            "start_cache", "resume_cache", "snap_io", "pause_save",
            "prompt_ui", "fw_stat"}

IdleTask == [op |-> "none", pc |-> "idle", w |-> NULL, s |-> NULL,
             mark |-> 0, inDispose |-> FALSE, ret |-> "idle",
             h |-> NULL, pauseTime |-> 0]

Idle(t) == tasks[t].pc = "idle"
\* a macrotask runs only when no microtask is queued
Macro == ready = {}
\* the lowest free slot takes the new call
FreeSlot(t) == Idle(t) /\ \A u \in Slots : u < t => ~Idle(u)

ReadyAfter(nt, t) == IF nt.pc \in WaitPcs THEN ready \ {t} ELSE ready \cup {t}

\* `await logWriter.forceFlush()` (inDispose = FALSE) or `await
\* logWriter.dispose()` (TRUE) by frame fr in slot t, on writer w whose record
\* is wr, after n write() calls; the caller goes on at pc `ret`
CallFlush(fr, t, w, wr, n, inDispose, ret) ==
  LET r == forceFlush(wr, t) IN
  [task |-> [fr EXCEPT !.pc = r.pc, !.w = w, !.mark = n,
                       !.inDispose = inDispose, !.ret = ret],
   wr   |-> r.wr]

\* ----------------------------------------------------- stream completions
\* the 'drain' handler of openStream and the write callback of write(),
\* run when the stream has written the record at the head of its queue
StreamWriteDone(k) ==
  LET s    == streams[k]
      w    == s.w
      rec  == Head(s.q)
      q2   == Tail(s.q)
      drain  == s.needDrain /\ q2 = <<>> /\ ~s.ending
      finish == s.ending /\ q2 = <<>>
      wr   == writers[w]
      left == wr.pendingWrites - 1
      drained  == drain /\ wr.drainPromise
      resolved == IF left = 0 THEN wr.pendingResolvers ELSE {}
      woken == {t \in Slots :
                  \/ drained /\ tasks[t].pc = "ff_drain" /\ tasks[t].w = w
                  \/ t \in resolved /\ tasks[t].pc = "ff_pend"
                  \/ finish /\ tasks[t].pc = "cl_wait" /\ tasks[t].s = k}
  IN /\ Macro
     /\ s.q # <<>> /\ ~s.destroyed
     /\ disk' = [disk EXCEPT ![s.file] = WriteToFile(@, rec)]
     /\ streams' = [streams EXCEPT ![k].q = q2,
                                   ![k].needDrain = @ /\ ~drain,
                                   ![k].finished = @ \/ finish]
     /\ writers' = [writers EXCEPT
                      ![w].pendingWrites = left,
                      ![w].pendingResolvers = @ \ resolved,
                      ![w].drainPromise = @ /\ ~drained]
     /\ tasks' = [t \in Slots |->
                    IF t \in woken
                    THEN [tasks[t] EXCEPT !.pc =
                            CASE @ = "ff_drain" -> "ff_drained"
                              [] @ = "ff_pend"  -> "ff_after"
                              [] OTHER          -> "cl_fin"]
                    ELSE tasks[t]]
     /\ ready' = ready \cup woken
     /\ UNCHANGED <<handed, issued, svars>>

\* --------------------------------------------- forceFlush / dispose steps
\* forceFlush() after `await this.drainPromise`
FlushDrained(t) ==
  LET r == forceFlushPending(writers[tasks[t].w], t) IN
  /\ t \in ready /\ tasks[t].pc = "ff_drained"
  /\ writers' = [writers EXCEPT ![tasks[t].w] = r.wr]
  /\ tasks' = [tasks EXCEPT ![t].pc = r.pc]
  /\ ready' = ReadyAfter(tasks'[t], t)
  /\ UNCHANGED <<streams, disk, handed, issued, svars>>

\* forceFlush() returns to a caller other than dispose()
FlushReturn(t) ==
  /\ t \in ready /\ tasks[t].pc = "ff_after" /\ ~tasks[t].inDispose
  /\ tasks' = [tasks EXCEPT ![t].pc = tasks[t].ret]
  /\ UNCHANGED <<ready, wvars, svars>>

\* dispose() after `await this.forceFlush()`: closeStreamAsync() up to its await
closeStreamAsync(t) ==
  LET w == tasks[t].w
      k == writers[w].writeStream
  IN /\ t \in ready /\ tasks[t].pc = "ff_after" /\ tasks[t].inDispose
     /\ IF k = NULL
        THEN /\ tasks' = [tasks EXCEPT ![t].pc = tasks[t].ret]
             /\ UNCHANGED streams
        ELSE /\ streams' = [streams EXCEPT ![k] = StreamEnd(@)]
             /\ tasks' = [tasks EXCEPT ![t].s = k,
                            ![t].pc = IF streams'[k].finished THEN "cl_fin"
                                      ELSE "cl_wait"]
     /\ ready' = ReadyAfter(tasks'[t], t)
     /\ UNCHANGED <<writers, disk, handed, issued, svars>>

\* closeStreamAsync() after 'finish': this.writeStream = null; dispose() returns
closeStreamFinished(t) ==
  /\ t \in ready /\ tasks[t].pc = "cl_fin"
  /\ writers' = [writers EXCEPT ![tasks[t].w].writeStream = NULL]
  /\ tasks' = [tasks EXCEPT ![t].pc = tasks[t].ret, ![t].s = NULL]
  /\ UNCHANGED <<ready, streams, disk, handed, issued, svars>>

\* the caller that awaited forceFlush()/dispose() ends
TaskExit(t) ==
  /\ t \in ready /\ tasks[t].pc = "exit"
  /\ tasks' = [tasks EXCEPT ![t] = IdleTask]
  /\ ready' = ready \ {t}
  /\ UNCHANGED <<wvars, svars>>

\* ------------------------------------- SnapshotHandler.emitWorkspaceDiff
\* A file map is a Map<string, SingleFileStats>: its entries in insertion
\* order, one per path.
MaxFiles == 3
Paths == {"A", "B", "C"}
SingleFileStats == {[loc |-> 1, bytes |-> 2], [loc |-> 2, bytes |-> 1],
                    [loc |-> 2, bytes |-> 2]}
\* the scan meets the paths in directory order, forwards or backwards
ScanOrder == [A |-> 1, B |-> 2, C |-> 3]
FileMaps ==
  {m \in UNION {[1..n -> [path : Paths, stats : SingleFileStats]] : n \in 0..MaxFiles} :
     \/ \A i, j \in 1..Len(m) : i < j => ScanOrder[m[i].path] < ScanOrder[m[j].path]
     \/ \A i, j \in 1..Len(m) : i < j => ScanOrder[m[i].path] > ScanOrder[m[j].path]}

\* Map.has, Map.get
Has(m, p) == \E i \in 1..Len(m) : m[i].path = p
Get(m, p) == m[CHOOSE i \in 1..Len(m) : m[i].path = p].stats
Abs(n) == IF n < 0 THEN 0 - n ELSE n

\* the accumulators declared at the top of emitWorkspaceDiff
ZeroDiff ==
  [addedPaths |-> <<>>, removedPaths |-> <<>>, addedLoc |-> 0, removedLoc |-> 0,
   addedBytes |-> 0, removedBytes |-> 0]

\* the body of the first loop with the byte delta looked at only when the line
\* count changed
DiffCurrentEntry_BytesFollowLoc(acc, prev, e) ==
  IF ~Has(prev, e.path)
  THEN [acc EXCEPT !.addedPaths = Append(@, e.path),
                   !.addedLoc = @ + e.stats.loc,
                   !.addedBytes = @ + e.stats.bytes]
  ELSE LET locDiff   == e.stats.loc - Get(prev, e.path).loc
           bytesDiff == e.stats.bytes - Get(prev, e.path).bytes
       IN IF locDiff = 0 THEN acc
          ELSE [acc EXCEPT
                  !.addedLoc     = IF locDiff > 0 THEN @ + locDiff ELSE @,
                  !.removedLoc   = IF locDiff < 0 THEN @ + Abs(locDiff) ELSE @,
                  !.addedBytes   = IF bytesDiff > 0 THEN @ + bytesDiff ELSE @,
                  !.removedBytes = IF bytesDiff < 0 THEN @ + Abs(bytesDiff) ELSE @]

\* the body of the first loop, for entry e of the current map
DiffCurrentEntry(acc, prev, e) ==
  IF ~Has(prev, e.path)
  THEN [acc EXCEPT !.addedPaths = Append(@, e.path),
                   !.addedLoc = @ + e.stats.loc,
                   !.addedBytes = @ + e.stats.bytes]
  ELSE LET locDiff   == e.stats.loc - Get(prev, e.path).loc
           bytesDiff == e.stats.bytes - Get(prev, e.path).bytes
       IN [acc EXCEPT
             !.addedLoc     = IF locDiff > 0 THEN @ + locDiff ELSE @,
             !.removedLoc   = IF locDiff < 0 THEN @ + Abs(locDiff) ELSE @,
             !.addedBytes   = IF bytesDiff > 0 THEN @ + bytesDiff ELSE @,
             !.removedBytes = IF bytesDiff < 0 THEN @ + Abs(bytesDiff) ELSE @]

\* for (const [filePath, stats] of currentFileMap), from entry i on
RECURSIVE DiffCurrent(_, _, _, _)
DiffCurrent(acc, prev, cur, i) ==
  IF i > Len(cur) THEN acc
  ELSE DiffCurrent(DiffCurrentEntry(acc, prev, cur[i]), prev, cur, i + 1)

\* the body of the second loop without the bytes of the removed file
DiffPreviousEntry_NoBytes(acc, cur, e) ==
  IF ~Has(cur, e.path)
  THEN [acc EXCEPT !.removedPaths = Append(@, e.path),
                   !.removedLoc = @ + e.stats.loc]
  ELSE acc

\* the body of the second loop, for entry e of the previous map
DiffPreviousEntry(acc, cur, e) ==
  IF ~Has(cur, e.path)
  THEN [acc EXCEPT !.removedPaths = Append(@, e.path),
                   !.removedLoc = @ + e.stats.loc,
                   !.removedBytes = @ + e.stats.bytes]
  ELSE acc

\* for (const [filePath, stats] of this.previousWorkspaceFiles), from entry i on
RECURSIVE DiffPrevious(_, _, _, _)
DiffPrevious(acc, prev, cur, i) ==
  IF i > Len(prev) THEN acc
  ELSE DiffPrevious(DiffPreviousEntry(acc, cur, prev[i]), prev, cur, i + 1)

\* no workspace_diff event is written
NoDiff ==
  [emitted |-> FALSE, added_files |-> 0, removed_files |-> 0, added_loc |-> 0,
   removed_loc |-> 0, added_bytes |-> 0, removed_bytes |-> 0,
   added_paths |-> <<>>, removed_paths |-> <<>>]

\* emitWorkspaceDiff without the return on an empty previous map
emitWorkspaceDiff_NoFirstScanReturn(prev, cur) ==
  LET d == DiffPrevious(DiffCurrent(ZeroDiff, prev, cur, 1), prev, cur, 1)
  IN IF \/ Len(d.addedPaths) > 0 \/ Len(d.removedPaths) > 0
        \/ d.addedLoc > 0 \/ d.removedLoc > 0
        \/ d.addedBytes > 0 \/ d.removedBytes > 0
     THEN [emitted |-> TRUE,
           added_files |-> Len(d.addedPaths),
           removed_files |-> Len(d.removedPaths),
           added_loc |-> d.addedLoc, removed_loc |-> d.removedLoc,
           added_bytes |-> d.addedBytes, removed_bytes |-> d.removedBytes,
           added_paths |-> d.addedPaths, removed_paths |-> d.removedPaths]
     ELSE NoDiff

\* emitWorkspaceDiff writing its event whatever the numbers are
emitWorkspaceDiff_AlwaysWrite(prev, cur) ==
  IF Len(prev) = 0 THEN NoDiff
  ELSE LET d == DiffPrevious(DiffCurrent(ZeroDiff, prev, cur, 1), prev, cur, 1)
       IN [emitted |-> TRUE,
           added_files |-> Len(d.addedPaths),
           removed_files |-> Len(d.removedPaths),
           added_loc |-> d.addedLoc, removed_loc |-> d.removedLoc,
           added_bytes |-> d.addedBytes, removed_bytes |-> d.removedBytes,
           added_paths |-> d.addedPaths, removed_paths |-> d.removedPaths]

\* emitWorkspaceDiff(currentFileMap) with this.previousWorkspaceFiles = prev:
\* the event handed to logWriter.write, or NoDiff
emitWorkspaceDiff(prev, cur) ==
  IF Len(prev) = 0 THEN NoDiff
  ELSE LET d == DiffPrevious(DiffCurrent(ZeroDiff, prev, cur, 1), prev, cur, 1)
       IN IF \/ Len(d.addedPaths) > 0 \/ Len(d.removedPaths) > 0
             \/ d.addedLoc > 0 \/ d.removedLoc > 0
             \/ d.addedBytes > 0 \/ d.removedBytes > 0
          THEN [emitted |-> TRUE,
                added_files |-> Len(d.addedPaths),
                removed_files |-> Len(d.removedPaths),
                added_loc |-> d.addedLoc, removed_loc |-> d.removedLoc,
                added_bytes |-> d.addedBytes, removed_bytes |-> d.removedBytes,
                added_paths |-> d.addedPaths, removed_paths |-> d.removedPaths]
          ELSE NoDiff

\* takeSnapshot() from the scan on: collectWorkspaceStatsWithFileMap() gives
\* the file map cur, the diff against the previous scan is emitted, and the
\* scan becomes the previous one
takeSnapshotDiff(cur) ==
  /\ currentFileMap' = cur
  /\ diffEvent' = emitWorkspaceDiff(previousWorkspaceFiles, cur)
  /\ previousWorkspaceFiles' = cur
  /\ UNCHANGED <<wvars, tvars, svars, called, cvars, pvars>>

\* ------------------------------------------ the SnapshotHandler on its own
MaxCalls    == 2      \* takeSnapshot() calls in flight at once
MaxTimers   == 2      \* interval timer ids
MaxSnapTime == 2      \* clock readings after the first, for the stats cache

\* cacheValidityMs (5000 in the source, scaled)
CacheValidityMs == 2

\* statsCache: null
NoCache == [valid |-> FALSE, stats |-> <<>>, timestamp |-> 0]
\* no takeSnapshot() running in the slot
\* (origin: the caller, "start", "prompt" or "timer"; rescan: it did not use
\* the cache)
IdleCall == [pc |-> "idle", fileMap |-> <<>>, origin |-> "", rescan |-> FALSE]

\* the contents the workspace folder goes through: empty, one file, the file
\* edited, a second file created
Workspaces ==
  {<<>>,
   <<[path |-> "A", stats |-> [loc |-> 1, bytes |-> 2]]>>,
   <<[path |-> "A", stats |-> [loc |-> 2, bytes |-> 2]]>>,
   <<[path |-> "A", stats |-> [loc |-> 1, bytes |-> 2]],
     [path |-> "B", stats |-> [loc |-> 2, bytes |-> 1]]>>}

\* -------------------------------------------- AIPromptHandler on its own
MaxPrompters   == 2   \* AIPromptHandler objects built (sessions started or resumed)
MaxPromptCalls == 2   \* markAIPrompt() calls in flight at once

\* what the user can type into the prompt box (a string as its characters),
\* and into the memo box
PromptTexts == {<<>>, <<"a">>, <<"a", "b">>}
Notes == {"", "memo"}
\* the quick-pick items: the AIMode of the label and the autoExecute flag
ModeItems == {[mode |-> "copilot_chat", autoExecute |-> TRUE],
              [mode |-> "agent", autoExecute |-> FALSE]}

\* hashString(text): the SHA-256 digest, here a digest of the characters
CharCode == [a |-> 1, b |-> 2]
RECURSIVE Digest(_, _)
Digest(text, i) ==
  IF i > Len(text) THEN 7 ELSE (31 * Digest(text, i + 1) + CharCode[text[i]]) % 97
hashString(text) == <<"sha256", Digest(text, 1)>>

\* no markAIPrompt() running in the slot
IdlePromptCall ==
  [pc |-> "idle", h |-> NULL, item |-> [mode |-> "", autoExecute |-> FALSE],
   promptText |-> <<>>]
\* no ai_prompt event written yet
NoPromptEvent ==
  [written |-> FALSE, prompt |-> [length |-> 0, hash |-> "", stored |-> FALSE],
   mode |-> "", note |-> "", promptText |-> <<>>, setting |-> FALSE]

NoPrompter ==
  /\ storePromptText = FALSE
  /\ prompters = <<>>
  /\ prompter = NULL
  /\ promptCalls = [c \in 1..MaxPromptCalls |-> IdlePromptCall]
  /\ promptEvent = NoPromptEvent

\* a SnapshotHandler as constructed: no previous scan, no cache, no timer
NoScan ==
  /\ NoPrompter
  /\ previousWorkspaceFiles = <<>>
  /\ currentFileMap = <<>>
  /\ diffEvent = NoDiff
  /\ statsCache = NoCache
  /\ snapshotTimer = NULL
  /\ intervals = {}
  /\ started = FALSE
  /\ calls = [c \in 1..MaxCalls |-> IdleCall]
  /\ workspace = <<>>
  /\ quietRun = "none"
  /\ scanned = FALSE

\* workspaceState.get('craftlog.savedSession') is undefined
NoSaved ==
  [sessionId |-> NULL, workspaceId |-> "", logFilePath |-> NULL, startTime |-> 0,
   pausedAt |-> 0, totalPausedMs |-> 0, controlMode |-> ""]

\* the state before any command: extension.ts 38-43
NoSession ==
  /\ now = 0
  /\ sessionState = NULL /\ logWriter = NULL /\ editTracker = NULL
  /\ aiPromptHandler = NULL /\ snapshotHandler = NULL /\ fileWatcher = NULL
  /\ sess = <<>> /\ hs = <<>>
  /\ savedSession = NoSaved
  /\ sidCount = 0
  /\ called = ""

\* ------------------------------------------------- the writer on its own
\* a caller writes one record of sz bytes
CallWrite(sz) ==
  LET rec == Line(issued + 1, "note", writers[1].base, 0, 0, sz, <<>>)
      st  == write([ws |-> writers, ss |-> streams], 1, rec)
  IN /\ Macro /\ issued < MaxWrites
     /\ writers' = st.ws /\ streams' = st.ss
     /\ handed' = [handed EXCEPT ![1] = Append(@, rec)]
     /\ issued' = issued + 1
     /\ UNCHANGED <<disk, tasks, ready, svars>>

\* a caller awaits forceFlush() (inDispose = FALSE) or dispose() (TRUE)
CallForceFlush(t, inDispose) ==
  LET c == CallFlush([IdleTask EXCEPT !.op = IF inDispose THEN "dispose" ELSE "flush"],
                     t, 1, writers[1], issued, inDispose, "exit")
  IN /\ Macro /\ FreeSlot(t)
     /\ writers' = [writers EXCEPT ![1] = c.wr]
     /\ tasks' = [tasks EXCEPT ![t] = c.task]
     /\ ready' = ReadyAfter(c.task, t)
     /\ UNCHANGED <<streams, disk, handed, issued, svars>>

InitWriter ==
  LET st == NewLogWriter([ws |-> <<>>, ss |-> <<>>], [f \in Files |-> <<>>], 1) IN
  /\ writers = st.ws /\ streams = st.ss
  /\ disk = [f \in Files |-> <<>>]
  /\ handed = << <<>> >>
  /\ issued = 0
  /\ tasks = [t \in Slots |-> IdleTask]
  /\ ready = {}
  /\ NoSession
  /\ NoScan

NextWriter ==
  \/ \E sz \in Sizes : CallWrite(sz) /\ called' = "" /\ UNCHANGED dvars
  \/ \E t \in Slots : CallForceFlush(t, FALSE) /\ called' = "" /\ UNCHANGED dvars
  \/ \E t \in Slots : CallForceFlush(t, TRUE) /\ called' = "" /\ UNCHANGED dvars
  \/ \E k \in 1..Len(streams) : StreamWriteDone(k) /\ called' = "" /\ UNCHANGED dvars
  \/ \E t \in Slots : FlushDrained(t) /\ called' = "" /\ UNCHANGED dvars
  \/ \E t \in Slots : FlushReturn(t) /\ called' = "" /\ UNCHANGED dvars
  \/ \E t \in Slots : closeStreamAsync(t) /\ called' = "" /\ UNCHANGED dvars
  \/ \E t \in Slots : closeStreamFinished(t) /\ called' = "" /\ UNCHANGED dvars
  \/ \E t \in Slots : TaskExit(t) /\ called' = "" /\ UNCHANGED dvars

SpecWriter == InitWriter /\ [][NextWriter]_vars

\* ------------------------------------------------- the writer, I/O errors
\* The write at the head of the queue of stream k fails (disk full, I/O
\* error): its callback gets the error, the stream is destroyed and the
\* callbacks of the writes queued behind it get the error too; the data is
\* lost, neither 'drain' nor 'finish' is emitted.  'error' rejects the promise
\* of a closeStreamAsync() waiting on the stream, and dispose() throws to its
\* caller.
StreamWriteFailed(k) ==
  LET s    == streams[k]
      w    == s.w
      wr   == writers[w]
      left == wr.pendingWrites - Len(s.q)
      resolved == IF left = 0 THEN wr.pendingResolvers ELSE {}
      rejected == {t \in Slots : tasks[t].pc = "cl_wait" /\ tasks[t].s = k}
      woken == {t \in Slots : t \in resolved /\ tasks[t].pc = "ff_pend"} \cup rejected
  IN /\ Macro
     /\ s.q # <<>> /\ ~s.destroyed
     /\ streams' = [streams EXCEPT ![k].q = <<>>, ![k].destroyed = TRUE]
     /\ writers' = [writers EXCEPT
                      ![w].pendingWrites = left,
                      ![w].pendingResolvers = @ \ resolved]
     /\ tasks' = [t \in Slots |->
                    IF t \in rejected THEN [tasks[t] EXCEPT !.pc = tasks[t].ret, !.s = NULL]
                    ELSE IF t \in woken THEN [tasks[t] EXCEPT !.pc = "ff_after"]
                    ELSE tasks[t]]
     /\ ready' = ready \cup woken
     /\ UNCHANGED <<disk, handed, issued, svars>>

\* every issued write completes, with success or with an error
WriteCompletes ==
  /\ \E k \in 1..Len(streams) : StreamWriteDone(k) \/ StreamWriteFailed(k)
  /\ called' = "" /\ UNCHANGED dvars
\* a queued continuation runs
ContinuationRuns ==
  /\ \E t \in Slots : \/ FlushDrained(t) \/ FlushReturn(t) \/ closeStreamAsync(t)
                      \/ closeStreamFinished(t) \/ TaskExit(t)
  /\ called' = "" /\ UNCHANGED dvars

NextWriterFail ==
  \/ NextWriter
  \/ \E k \in 1..Len(streams) : StreamWriteFailed(k) /\ called' = "" /\ UNCHANGED dvars

SpecWriterFail ==
  /\ InitWriter /\ [][NextWriterFail]_vars
  /\ WF_vars(WriteCompletes) /\ WF_vars(ContinuationRuns)


\* ------------------------------------------- the writer, every write succeeds
\* an issued write completes
WriteSucceeds ==
  /\ \E k \in 1..Len(streams) : StreamWriteDone(k)
  /\ called' = "" /\ UNCHANGED dvars

\* the writer without I/O errors: every issued write eventually completes and
\* every queued continuation eventually runs
SpecWriterFair ==
  /\ InitWriter /\ [][NextWriter]_vars
  /\ WF_vars(WriteSucceeds) /\ WF_vars(ContinuationRuns)

\* =====================================================================
\* extension.ts: the session commands
\* =====================================================================
Modes == {"human", "ai"}
\* generateWorkspaceId(workspacePath): one workspace folder
WorkspaceId == "W_1"

\* calculateElapsedMs() for the SessionState object so at clock reading t
ElapsedOf(so, t) ==
  LET e0 == t - so.startTime - so.totalPausedMs
      e  == IF so.lastPauseTime # NoTime THEN e0 - (t - so.lastPauseTime) ELSE e0
  IN IF e < 0 THEN 0 ELSE e

\* calculateElapsedMs(): reads the module-level sessionState
calculateElapsedMs == IF sessionState = NULL THEN 0 ELSE ElapsedOf(sess[sessionState], now)

IsLogging == sessionState # NULL /\ sess[sessionState].isLogging

\* the writer heap with its history, threaded through one synchronous stretch
W0 == [ws |-> writers, ss |-> streams, hd |-> handed, n |-> issued]
SetW(W) == writers' = W.ws /\ streams' = W.ss /\ handed' = W.hd /\ issued' = W.n

\* logWriter.write(event) for an event object built now
Emit(W, w, ev, sid, ts, el, x) ==
  LET rec == Line(W.n + 1, ev, sid, ts, el, 1, x)
      st  == write([ws |-> W.ws, ss |-> W.ss], w, rec)
  IN [ws |-> st.ws, ss |-> st.ss, hd |-> [W.hd EXCEPT ![w] = Append(@, rec)],
      n |-> W.n + 1]

NewWriterW(W, base) ==
  LET st == NewLogWriter([ws |-> W.ws, ss |-> W.ss], disk, base)
  IN [ws |-> st.ws, ss |-> st.ss, hd |-> Append(W.hd, <<>>), n |-> W.n]

\* new EditTracker / AIPromptHandler / SnapshotHandler / FileWatcher(config,
\* sessionState, logWriter, workspacePath): they keep the objects they are given
NewHandlers(so, w) ==
  [so |-> so, w |-> w, edDisposed |-> FALSE, fwDisposed |-> FALSE, timer |-> FALSE]

\* editTracker?.dispose(); snapshotHandler?.dispose(); fileWatcher?.dispose()
DisposeHandlers(H) ==
  LET H1 == IF editTracker # NULL THEN [H EXCEPT ![editTracker].edDisposed = TRUE] ELSE H
      H2 == IF snapshotHandler # NULL THEN [H1 EXCEPT ![snapshotHandler].timer = FALSE] ELSE H1
  IN IF fileWatcher # NULL THEN [H2 EXCEPT ![fileWatcher].fwDisposed = TRUE] ELSE H2

\* the frame ends: by return, or by the TypeError of a property access on null
EndTask(t) ==
  /\ tasks' = [tasks EXCEPT ![t] = IdleTask]
  /\ ready' = ready \ {t}

\* the frame goes on with frame nt
Continue(t, nt) ==
  /\ tasks' = [tasks EXCEPT ![t] = nt]
  /\ ready' = ReadyAfter(nt, t)

\* `await snapshotHandler.takeSnapshot()` up to its first await
CallSnapshot(fr, h, ret) ==
  IF ~sess[hs[h].so].isLogging
  THEN [fr EXCEPT !.pc = ret]
  ELSE [fr EXCEPT !.pc = "snap_io", !.h = h, !.ret = ret]

\* ------------------------------------------------------------ startSession
startSession_NoGuard(t) ==
  LET g   == Len(sess) + 1
      sid == sidCount + 1
      w   == Len(writers) + 1
      so  == [sessionId |-> sid, workspaceId |-> WorkspaceId, isLogging |-> TRUE,
              isPaused |-> FALSE, logFilePath |-> sid, startTime |-> now,
              totalPausedMs |-> 0, lastPauseTime |-> NoTime, controlMode |-> "human"]
      W   == Emit(NewWriterW(W0, sid), w, "session_start", sid, now, 0, <<>>)
  IN /\ Macro /\ FreeSlot(t)
     /\ Len(sess) < MaxGen /\ sidCount < MaxSid /\ issued < MaxWrites
     /\ sess' = Append(sess, so)
     /\ sessionState' = g /\ logWriter' = w
     /\ hs' = Append(hs, NewHandlers(g, w))
     /\ editTracker' = Len(hs) + 1 /\ aiPromptHandler' = Len(hs) + 1
     /\ snapshotHandler' = Len(hs) + 1 /\ fileWatcher' = Len(hs) + 1
     /\ sidCount' = sidCount + 1
     /\ SetW(W)
     /\ Continue(t, [IdleTask EXCEPT !.op = "start", !.pc = "start_cache"])
     /\ UNCHANGED <<disk, now, savedSession>>

startSession(t) ==
  /\ Macro
  /\ IF IsLogging
     THEN UNCHANGED <<wvars, tvars, svars>>
     ELSE startSession_NoGuard(t)

\* after `await fileWatcher.initializeCache()`
startAfterCache(t) ==
  /\ Macro /\ tasks[t].pc \in {"start_cache", "resume_cache"}
  /\ IF snapshotHandler = NULL
     THEN EndTask(t) /\ UNCHANGED hs
     ELSE /\ hs' = [hs EXCEPT ![snapshotHandler].timer = TRUE]
          /\ Continue(t, CallSnapshot(tasks[t], snapshotHandler,
                           IF tasks[t].op = "start" THEN "exit" ELSE "resume_2"))
  /\ UNCHANGED <<wvars, now, gvars, sess, savedSession, sidCount>>

\* ------------------------------------------------- SnapshotHandler (outline)
\* the setInterval callback: () => this.takeSnapshot()
snapshotTick(h, t) ==
  /\ Macro /\ FreeSlot(t) /\ issued < MaxWrites
  /\ hs[h].timer
  /\ Continue(t, CallSnapshot([IdleTask EXCEPT !.op = "snapshot"], h, "exit"))
  /\ UNCHANGED <<wvars, svars>>

\* takeSnapshot() after the scan and the git lookup: the snapshot event
snapshotScanned(t) ==
  LET h == tasks[t].h
      W == Emit(W0, hs[h].w, "snapshot", sess[hs[h].so].sessionId, now,
                calculateElapsedMs, <<>>)
  IN /\ Macro /\ tasks[t].pc = "snap_io"
     /\ SetW(W)
     /\ Continue(t, [tasks[t] EXCEPT !.pc = tasks[t].ret])
     /\ UNCHANGED <<disk, svars>>

\* ------------------------------------------------------------ pauseSession
pauseSession(t) ==
  /\ Macro
  /\ IF ~IsLogging \/ sess[sessionState].isPaused
     THEN UNCHANGED <<wvars, tvars, svars>>
     ELSE LET fr == [IdleTask EXCEPT !.op = "pause", !.pauseTime = now]
              W  == Emit(W0, logWriter, "session_pause", sess[sessionState].sessionId,
                         now, calculateElapsedMs, <<>>)
              c  == CallFlush(fr, t, logWriter, W.ws[logWriter], W.n, FALSE, "pause_1")
          IN /\ FreeSlot(t) /\ issued < MaxWrites
             /\ IF logWriter # NULL
                THEN /\ SetW([W EXCEPT !.ws[logWriter] = c.wr])
                     /\ Continue(t, c.task)
                ELSE /\ Continue(t, [fr EXCEPT !.pc = "pause_1"])
                     /\ UNCHANGED <<writers, streams, handed, issued>>
             /\ UNCHANGED <<disk, svars>>

SavedInfo(so, pauseTime) ==
  [sessionId |-> so.sessionId, workspaceId |-> so.workspaceId,
   logFilePath |-> so.logFilePath, startTime |-> so.startTime,
   pausedAt |-> pauseTime, totalPausedMs |-> so.totalPausedMs,
   controlMode |-> so.controlMode]

\* after `await logWriter.forceFlush()`, up to `await workspaceState.update(..)`
pauseAfterFlush(t) ==
  /\ t \in ready /\ tasks[t].pc = "pause_1"
  /\ hs' = IF snapshotHandler # NULL THEN [hs EXCEPT ![snapshotHandler].timer = FALSE]
           ELSE hs
  /\ IF sessionState = NULL
     THEN EndTask(t) /\ UNCHANGED <<sess, savedSession>>
     ELSE /\ sess' = [sess EXCEPT ![sessionState].lastPauseTime = tasks[t].pauseTime]
          /\ savedSession' = SavedInfo(sess'[sessionState], tasks[t].pauseTime)
          /\ Continue(t, [tasks[t] EXCEPT !.pc = "pause_save"])
  /\ UNCHANGED <<wvars, now, gvars, sidCount>>

\* after `await extensionContext.workspaceState.update(..)`
pauseAfterSave(t) ==
  /\ Macro /\ tasks[t].pc = "pause_save"
  /\ IF sessionState = NULL
     THEN EndTask(t) /\ UNCHANGED <<sess, hs, writers>>
     ELSE LET c == CallFlush(tasks[t], t, logWriter, writers[logWriter], issued,
                             TRUE, "pause_3")
          IN /\ sess' = [sess EXCEPT ![sessionState].isLogging = FALSE,
                                     ![sessionState].isPaused = TRUE]
             /\ hs' = DisposeHandlers(hs)
             /\ IF logWriter # NULL
                THEN /\ writers' = [writers EXCEPT ![logWriter] = c.wr]
                     /\ Continue(t, c.task)
                ELSE /\ Continue(t, [tasks[t] EXCEPT !.pc = "pause_3"])
                     /\ UNCHANGED writers
  /\ UNCHANGED <<streams, disk, handed, issued, now, gvars, savedSession, sidCount>>

\* after `await logWriter.dispose()`
pauseCleanup(t) ==
  /\ t \in ready /\ tasks[t].pc = "pause_3"
  /\ editTracker' = NULL /\ snapshotHandler' = NULL /\ aiPromptHandler' = NULL
  /\ fileWatcher' = NULL /\ logWriter' = NULL
  /\ EndTask(t)
  /\ UNCHANGED <<wvars, now, sessionState, sess, hs, savedSession, sidCount>>

\* ----------------------------------------------------------- resumeSession
ResumedTotal_Dropped(saved, resumeTime) == resumeTime - saved.pausedAt

\* totalPausedMs = (savedInfo.totalPausedMs || 0) + pausedDuration
ResumedTotal(saved, resumeTime) ==
  saved.totalPausedMs + (resumeTime - saved.pausedAt)

resumeSession(t) ==
  /\ Macro
  /\ IF savedSession = NoSaved \/ IsLogging
     THEN UNCHANGED <<wvars, tvars, svars>>
     ELSE LET g  == Len(sess) + 1
              w  == Len(writers) + 1
              resumeTime == now
              so == [sessionId |-> savedSession.sessionId,
                     workspaceId |-> savedSession.workspaceId,
                     isLogging |-> TRUE, isPaused |-> FALSE,
                     logFilePath |-> savedSession.logFilePath,
                     startTime |-> savedSession.startTime,
                     totalPausedMs |-> ResumedTotal(savedSession, resumeTime),
                     lastPauseTime |-> NoTime,
                     controlMode |-> savedSession.controlMode]
              W  == Emit(NewWriterW(W0, savedSession.logFilePath), w, "session_resume",
                         so.sessionId, resumeTime, ElapsedOf(so, now), <<>>)
          IN /\ FreeSlot(t) /\ Len(sess) < MaxGen /\ issued < MaxWrites
             /\ sess' = Append(sess, so)
             /\ sessionState' = g /\ logWriter' = w
             /\ hs' = Append(hs, NewHandlers(g, w))
             /\ editTracker' = Len(hs) + 1 /\ aiPromptHandler' = Len(hs) + 1
             /\ snapshotHandler' = Len(hs) + 1 /\ fileWatcher' = Len(hs) + 1
             /\ SetW(W)
             /\ Continue(t, [IdleTask EXCEPT !.op = "resume", !.pc = "resume_cache"])
             /\ UNCHANGED <<disk, now, savedSession, sidCount>>

\* after `await snapshotHandler.takeSnapshot()`: the saved record is cleared
resumeAfterSnapshot(t) ==
  /\ t \in ready /\ tasks[t].pc = "resume_2"
  /\ savedSession' = NoSaved
  /\ EndTask(t)
  /\ UNCHANGED <<wvars, now, gvars, sess, hs, sidCount>>

\* ------------------------------------------------------------- stopSession
stopSession(t) ==
  /\ Macro
  /\ IF sessionState = NULL
        \/ (~sess[sessionState].isLogging /\ ~sess[sessionState].isPaused)
     THEN /\ savedSession' = NoSaved
          /\ UNCHANGED <<wvars, tvars, now, gvars, sess, hs, sidCount>>
     ELSE LET fr == [IdleTask EXCEPT !.op = "stop"]
              W  == Emit(W0, logWriter, "session_end", sess[sessionState].sessionId,
                         now, calculateElapsedMs, <<>>)
              c  == CallFlush(fr, t, logWriter, W.ws[logWriter], W.n, FALSE, "stop_1")
          IN /\ FreeSlot(t) /\ issued < MaxWrites
             /\ IF logWriter # NULL
                THEN /\ SetW([W EXCEPT !.ws[logWriter] = c.wr])
                     /\ Continue(t, c.task)
                ELSE /\ Continue(t, [fr EXCEPT !.pc = "stop_1"])
                     /\ UNCHANGED <<writers, streams, handed, issued>>
             /\ UNCHANGED <<disk, svars>>

\* after `await logWriter.forceFlush()`: the handlers, then the writer
stopAfterFlush(t) ==
  /\ t \in ready /\ tasks[t].pc = "stop_1"
  /\ hs' = DisposeHandlers(hs)
  /\ LET c == CallFlush(tasks[t], t, logWriter, writers[logWriter], issued,
                        TRUE, "stop_2")
     IN IF logWriter # NULL
        THEN /\ writers' = [writers EXCEPT ![logWriter] = c.wr]
             /\ Continue(t, c.task)
        ELSE /\ Continue(t, [tasks[t] EXCEPT !.pc = "stop_2"])
             /\ UNCHANGED writers
  /\ UNCHANGED <<streams, disk, handed, issued, now, gvars, sess, savedSession,
                 sidCount>>

\* after `await logWriter.dispose()`: the state is cleared
stopCleanup(t) ==
  /\ t \in ready /\ tasks[t].pc = "stop_2"
  /\ IF sessionState = NULL
     THEN UNCHANGED <<gvars, savedSession>>
     ELSE /\ sessionState' = NULL /\ logWriter' = NULL /\ editTracker' = NULL
          /\ aiPromptHandler' = NULL /\ snapshotHandler' = NULL
          /\ fileWatcher' = NULL
          /\ savedSession' = NoSaved
  /\ EndTask(t)
  /\ UNCHANGED <<wvars, now, sess, hs, sidCount>>

\* ------------------------------------------------------ the event producers
\* EditTracker.handleDocumentChange of handler set h
handleDocumentChange(h) ==
  /\ Macro /\ issued < MaxWrites
  /\ ~hs[h].edDisposed
  /\ IF ~sess[hs[h].so].isLogging
     THEN UNCHANGED wvars
     ELSE /\ SetW(Emit(W0, hs[h].w, "edit", sess[hs[h].so].sessionId, now, NoTime, <<>>))
          /\ UNCHANGED disk
  /\ UNCHANGED <<tvars, svars>>

\* setControlMode without the early return for an unchanged mode
setControlMode_NoSameCheck(newMode, reason) ==
  IF sessionState = NULL \/ logWriter = NULL
  THEN UNCHANGED <<wvars, sess>>
  ELSE /\ SetW(Emit(W0, logWriter, "mode_change", sess[sessionState].sessionId, now,
                    calculateElapsedMs,
                    <<sess[sessionState].controlMode, newMode, reason>>))
       /\ sess' = [sess EXCEPT ![sessionState].controlMode = newMode]
       /\ UNCHANGED disk

\* setControlMode(newMode, reason)
setControlMode(newMode, reason) ==
  IF sessionState = NULL \/ logWriter = NULL
     \/ sess[sessionState].controlMode = newMode
  THEN UNCHANGED <<wvars, sess>>
  ELSE /\ SetW(Emit(W0, logWriter, "mode_change", sess[sessionState].sessionId, now,
                    calculateElapsedMs,
                    <<sess[sessionState].controlMode, newMode, reason>>))
       /\ sess' = [sess EXCEPT ![sessionState].controlMode = newMode]
       /\ UNCHANGED disk

\* the arguments logPolicyViolation is given
PolicyKinds == {"ai_action_in_human_mode", "blocked_command"}
PolicyDetails == {"inline suggest", "chat"}

\* logPolicyViolation with the control_mode field fixed
logPolicyViolation_AlwaysHuman(kind, detail) ==
  IF sessionState = NULL \/ logWriter = NULL
  THEN UNCHANGED <<wvars, sess>>
  ELSE /\ SetW(Emit(W0, logWriter, "policy_violation", sess[sessionState].sessionId,
                    now, calculateElapsedMs, <<kind, "human", detail>>))
       /\ UNCHANGED <<disk, sess>>

\* logPolicyViolation(kind, detail)
logPolicyViolation(kind, detail) ==
  IF sessionState = NULL \/ logWriter = NULL
  THEN UNCHANGED <<wvars, sess>>
  ELSE /\ SetW(Emit(W0, logWriter, "policy_violation", sess[sessionState].sessionId,
                    now, calculateElapsedMs,
                    <<kind, sess[sessionState].controlMode, detail>>))
       /\ UNCHANGED <<disk, sess>>

\* a caller of the exported function
callLogPolicyViolation(kind, detail) ==
  /\ Macro /\ issued < MaxWrites
  /\ logPolicyViolation(kind, detail)
  /\ UNCHANGED <<tvars, now, gvars, hs, savedSession, sidCount>>

\* the name under which a call with these arguments is observed
PolicyCall(kind, detail) == "logPolicyViolation " \o kind \o " " \o detail

\* the commands setHumanMode / setAIMode / toggleMode
setMode(newMode) ==
  /\ Macro /\ issued < MaxWrites
  /\ IF ~IsLogging
     THEN UNCHANGED <<wvars, sess>>
     ELSE setControlMode(newMode, "manual")
  /\ UNCHANGED <<tvars, now, gvars, hs, savedSession, sidCount>>

\* the command craftlog.markAIPrompt up to the first dialog of
\* AIPromptHandler.markAIPrompt
markAIPrompt(t) ==
  /\ Macro /\ issued < MaxWrites
  /\ IF aiPromptHandler = NULL
     THEN UNCHANGED tvars
     ELSE /\ FreeSlot(t)
          /\ Continue(t, [IdleTask EXCEPT
                            !.op = "prompt", !.h = aiPromptHandler,
                            !.pc = IF sess[hs[aiPromptHandler].so].isLogging
                                   THEN "prompt_ui" ELSE "prompt_2"])
  /\ UNCHANGED <<wvars, svars>>

\* AIPromptHandler.logPrompt: the ai_prompt event, and nothing else
logPrompt(W, h) ==
  Emit(W, hs[h].w, "ai_prompt", sess[hs[h].so].sessionId, now, NoTime, <<>>)

\* the dialogs are answered: a cancel returns, anything else is logged
promptEntered(t) ==
  /\ Macro /\ tasks[t].pc = "prompt_ui"
  /\ \/ UNCHANGED wvars
     \/ /\ issued < MaxWrites
        /\ SetW(logPrompt(W0, tasks[t].h))
        /\ UNCHANGED disk
  /\ Continue(t, [tasks[t] EXCEPT !.pc = "prompt_2"])
  /\ UNCHANGED svars

\* markAIPrompt after `await aiPromptHandler.markAIPrompt()`: the snapshot
promptAfterMark(t) ==
  /\ t \in ready /\ tasks[t].pc = "prompt_2"
  /\ IF snapshotHandler = NULL
     THEN EndTask(t)
     ELSE Continue(t, CallSnapshot(tasks[t], snapshotHandler, "exit"))
  /\ UNCHANGED <<wvars, svars>>

\* FileWatcher.handleCreate of handler set h up to `await getFileStats`
handleCreate(h, t) ==
  /\ Macro /\ ~hs[h].fwDisposed
  /\ IF ~sess[hs[h].so].isLogging
     THEN UNCHANGED tvars
     ELSE /\ FreeSlot(t)
          /\ Continue(t, [IdleTask EXCEPT !.op = "create", !.h = h,
                                          !.pc = "fw_stat"])
  /\ UNCHANGED <<wvars, svars>>

\* handleCreate after the stat: no event for a file that cannot be read, else
\* the file_create event
handleCreateStat(t) ==
  /\ Macro /\ tasks[t].pc = "fw_stat"
  /\ \/ UNCHANGED wvars
     \/ /\ issued < MaxWrites
        /\ SetW(Emit(W0, hs[tasks[t].h].w, "file_create",
                     sess[hs[tasks[t].h].so].sessionId, now, NoTime, <<>>))
        /\ UNCHANGED disk
  /\ EndTask(t)
  /\ UNCHANGED svars

\* FileWatcher.handleDelete of handler set h
handleDelete(h) ==
  /\ Macro /\ issued < MaxWrites
  /\ ~hs[h].fwDisposed
  /\ IF ~sess[hs[h].so].isLogging
     THEN UNCHANGED wvars
     ELSE /\ SetW(Emit(W0, hs[h].w, "file_delete", sess[hs[h].so].sessionId, now,
                       NoTime, <<>>))
          /\ UNCHANGED disk
  /\ UNCHANGED <<tvars, svars>>

\* ------------------------------------------------------------ environment
tick ==
  /\ Macro /\ now < MaxTime
  /\ now' = now + 1
  /\ UNCHANGED <<wvars, tvars, gvars, sess, hs, savedSession, sidCount>>

\* the window is reloaded once deactivate() has paused the session: the
\* module-level state is gone, workspaceState and the files stay
restart ==
  /\ Macro /\ \A t \in Slots : Idle(t)
  /\ sessionState # NULL /\ ~IsLogging
  /\ \A k \in 1..Len(streams) : streams[k].q = <<>>
  /\ sessionState' = NULL /\ logWriter' = NULL /\ editTracker' = NULL
  /\ aiPromptHandler' = NULL /\ snapshotHandler' = NULL /\ fileWatcher' = NULL
  /\ hs' = [h \in 1..Len(hs) |-> [hs[h] EXCEPT !.edDisposed = TRUE,
                                   !.fwDisposed = TRUE, !.timer = FALSE]]
  /\ UNCHANGED <<wvars, tvars, now, sess, savedSession, sidCount>>

Init ==
  /\ writers = <<>> /\ streams = <<>>
  /\ disk = [f \in Files |-> <<>>]
  /\ handed = <<>>
  /\ issued = 0
  /\ tasks = [t \in Slots |-> IdleTask]
  /\ ready = {}
  /\ NoSession
  /\ NoScan

\* a call of a command may be observed: its name is recorded, and the
\* behaviour is followed up to the observed call
Record(observe, name) ==
  /\ called = ""
  /\ UNCHANGED dvars
  /\ \/ called' = ""
     \/ observe /\ called' = name

\* one step of the event loop
Run(observe) ==
  \/ \E t \in Slots : startSession(t) /\ Record(observe, "startSession")
  \/ \E t \in Slots : pauseSession(t) /\ Record(observe, "pauseSession")
  \/ \E t \in Slots : resumeSession(t) /\ Record(observe, "resumeSession")
  \/ \E t \in Slots : stopSession(t) /\ Record(observe, "stopSession")
  \/ \E t \in Slots : startAfterCache(t) /\ Record(observe, "")
  \/ \E t \in Slots : snapshotScanned(t) /\ Record(observe, "")
  \/ \E t \in Slots : pauseAfterFlush(t) /\ Record(observe, "")
  \/ \E t \in Slots : pauseAfterSave(t) /\ Record(observe, "")
  \/ \E t \in Slots : pauseCleanup(t) /\ Record(observe, "")
  \/ \E t \in Slots : resumeAfterSnapshot(t) /\ Record(observe, "")
  \/ \E t \in Slots : stopAfterFlush(t) /\ Record(observe, "")
  \/ \E t \in Slots : stopCleanup(t) /\ Record(observe, "")
  \/ \E h \in 1..Len(hs), t \in Slots : snapshotTick(h, t) /\ Record(observe, "")
  \/ \E h \in 1..Len(hs) : handleDocumentChange(h) /\ Record(observe, "")
  \/ \E m \in Modes : setMode(m) /\ Record(observe, "")
  \/ tick /\ Record(observe, "")
  \/ restart /\ Record(observe, "")
  \/ \E k \in 1..Len(streams) : StreamWriteDone(k) /\ Record(observe, "")
  \/ \E t \in Slots : FlushDrained(t) /\ Record(observe, "")
  \/ \E t \in Slots : FlushReturn(t) /\ Record(observe, "")
  \/ \E t \in Slots : closeStreamAsync(t) /\ Record(observe, "")
  \/ \E t \in Slots : closeStreamFinished(t) /\ Record(observe, "")
  \/ \E t \in Slots : TaskExit(t) /\ Record(observe, "")

Next == Run(FALSE)

Spec == Init /\ [][Next]_vars

NextObserved == Run(TRUE)

SpecObserved == Init /\ [][NextObserved]_vars

\* the session commands, followed up to a call of the exported
\* logPolicyViolation, which is observed
NextPolicy ==
  \/ Run(FALSE)
  \/ \E kind \in PolicyKinds, detail \in PolicyDetails :
       /\ callLogPolicyViolation(kind, detail)
       /\ called = "" /\ called' = PolicyCall(kind, detail)
       /\ UNCHANGED dvars

SpecPolicy == Init /\ [][NextPolicy]_vars

\* the event loop while a session is active, with every producer of records:
\* the commands, the snapshot engine, the edit tracker, the AI-prompt handler
\* and the file watcher
NextProducers ==
  \/ \E t \in Slots : startSession(t) /\ Record(FALSE, "")
  \/ \E t \in Slots : startAfterCache(t) /\ Record(FALSE, "")
  \/ \E t \in Slots : snapshotScanned(t) /\ Record(FALSE, "")
  \/ \E h \in 1..Len(hs) : handleDocumentChange(h) /\ Record(FALSE, "")
  \/ \E m \in Modes : setMode(m) /\ Record(FALSE, "")
  \/ \E t \in Slots : markAIPrompt(t) /\ Record(FALSE, "")
  \/ \E t \in Slots : promptEntered(t) /\ Record(FALSE, "")
  \/ \E t \in Slots : promptAfterMark(t) /\ Record(FALSE, "")
  \/ \E h \in 1..Len(hs), t \in Slots : handleCreate(h, t) /\ Record(FALSE, "")
  \/ \E t \in Slots : handleCreateStat(t) /\ Record(FALSE, "")
  \/ \E h \in 1..Len(hs) : handleDelete(h) /\ Record(FALSE, "")
  \/ tick /\ Record(FALSE, "")
  \/ \E k \in 1..Len(streams) : StreamWriteDone(k) /\ Record(FALSE, "")
  \/ \E t \in Slots : TaskExit(t) /\ Record(FALSE, "")

SpecProducers == Init /\ [][NextProducers]_vars

\* the snapshot engine alone: scans and the diffs between successive scans
NextDiff == \E cur \in FileMaps : takeSnapshotDiff(cur)

SpecDiff == Init /\ [][NextDiff]_vars

\* ------------------------------------------ SnapshotHandler: timer and cache
\* The session of the handler is active throughout (sessionState.isLogging is
\* true at line 84).  A step of this part leaves the writer, the tasks and
\* the session alone; the snapshot record handed to logWriter.write is a
\* function of currentFileMap, the workspace_diff record is diffEvent.
SnapFrame ==
  UNCHANGED <<wvars, tvars, gvars, sess, hs, savedSession, sidCount, called, pvars>>
ScanFrame == UNCHANGED <<previousWorkspaceFiles, currentFileMap, diffEvent, scanned>>

\* stopPeriodicSnapshots() in a state with this.snapshotTimer = timer and the
\* live intervals ivs: the two afterwards
stopPeriodicSnapshots_KeepInterval(timer, ivs) ==
  [timer |-> NULL, ivs |-> ivs]
stopPeriodicSnapshots(timer, ivs) ==
  IF timer # NULL THEN [timer |-> NULL, ivs |-> ivs \ {timer}]
  ELSE [timer |-> timer, ivs |-> ivs]

\* setInterval: a timer object that is not one of the live ones, nor the one
\* just cleared
FreshTimers(timer, ivs) == (1..MaxTimers) \ (ivs \cup {timer})

\* startPeriodicSnapshots()
startPeriodicSnapshots(id) ==
  LET st == stopPeriodicSnapshots(snapshotTimer, intervals)
  IN /\ id \in FreshTimers(snapshotTimer, st.ivs)
     /\ snapshotTimer' = id
     /\ intervals' = st.ivs \cup {id}

\* collectWorkspaceStatsWithFileMap(): is the cached scan returned?
CacheValid_Inclusive(cache) ==
  cache.valid /\ now - cache.timestamp <= CacheValidityMs
CacheValid(cache) ==
  cache.valid /\ now - cache.timestamp < CacheValidityMs

\* invalidateCache()
invalidateCache_Keep(cache) == cache
invalidateCache(cache) == NoCache

\* takeSnapshot() up to its first pending await, the cache being `cache`:
\* with a valid cache it has the cached stats and waits for collectGitInfo(),
\* otherwise it waits for calculateStatsWithFileMap()
takeSnapshot(c, cache, origin) ==
  /\ calls[c].pc = "idle"
  /\ calls' = [calls EXCEPT ![c] =
       IF CacheValid(cache)
       THEN [pc |-> "git", fileMap |-> cache.stats, origin |-> origin,
             rescan |-> FALSE]
       ELSE [pc |-> "scan", fileMap |-> <<>>, origin |-> origin,
             rescan |-> TRUE]]
  /\ quietRun' = IF \A d \in 1..MaxCalls : calls[d].pc = "idle"
                 THEN CASE quietRun = "between" -> "second"
                        [] quietRun = "betweenStale" -> "secondStale"
                        [] OTHER -> "first"
                 ELSE "none"

\* startSession 443-446, resumeSession 900-903, once for a handler:
\* snapshotHandler.startPeriodicSnapshots(); await snapshotHandler.takeSnapshot()
takeSnapshotOnStart(c) ==
  /\ ~started
  /\ started' = TRUE
  /\ \E id \in 1..MaxTimers : startPeriodicSnapshots(id)
  /\ takeSnapshot(c, statsCache, "start")
  /\ UNCHANGED <<statsCache, workspace, now>>
  /\ ScanFrame /\ SnapFrame

\* markAIPrompt: snapshotHandler.invalidateCache(); await takeSnapshot()
takeSnapshotAfterPrompt(c) ==
  /\ statsCache' = invalidateCache(statsCache)
  /\ takeSnapshot(c, statsCache', "prompt")
  /\ UNCHANGED <<snapshotTimer, intervals, started, workspace, now>>
  /\ ScanFrame /\ SnapFrame

\* the callback of a live interval timer: () => this.takeSnapshot()
snapshotInterval(c) ==
  /\ intervals # {}
  /\ takeSnapshot(c, statsCache, "timer")
  /\ UNCHANGED <<statsCache, snapshotTimer, intervals, started, workspace, now>>
  /\ ScanFrame /\ SnapFrame

\* calculateStatsWithFileMap() has read the workspace: the scan is cached
\* with the time of its completion, then collectGitInfo() is awaited
scanDone(c) ==
  /\ calls[c].pc = "scan"
  /\ statsCache' = [valid |-> TRUE, stats |-> workspace, timestamp |-> now]
  /\ calls' = [calls EXCEPT ![c].pc = "git", ![c].fileMap = workspace]
  /\ UNCHANGED <<snapshotTimer, intervals, started, workspace, now, quietRun>>
  /\ ScanFrame /\ SnapFrame

\* this.previousWorkspaceFiles = new Map(workspaceStats.fileMap)
ReplacePrevious_Merge(prev, cur) ==
  cur \o SelectSeq(prev, LAMBDA e : ~Has(cur, e.path))
ReplacePrevious(prev, cur) == cur

\* collectGitInfo() has returned: the snapshot record is written,
\* emitWorkspaceDiff runs to its end and the scan becomes the previous one
snapshotWritten(c) ==
  /\ calls[c].pc = "git"
  /\ currentFileMap' = calls[c].fileMap
  /\ diffEvent' = emitWorkspaceDiff(previousWorkspaceFiles, calls[c].fileMap)
  /\ previousWorkspaceFiles' = ReplacePrevious(previousWorkspaceFiles, calls[c].fileMap)
  /\ calls' = [calls EXCEPT ![c] = IdleCall]
  /\ scanned' = TRUE
  /\ quietRun' = IF quietRun \in {"first", "second", "secondStale"}
                 THEN (IF calls[c].fileMap = workspace THEN "between"
                       ELSE "betweenStale")
                 ELSE "none"
  /\ UNCHANGED <<statsCache, snapshotTimer, intervals, started, workspace, now>>
  /\ SnapFrame

\* pauseSession 789, dispose(): stopPeriodicSnapshots()
callStopPeriodicSnapshots ==
  LET st == stopPeriodicSnapshots(snapshotTimer, intervals)
  IN /\ snapshotTimer' = st.timer
     /\ intervals' = st.ivs
     /\ UNCHANGED <<statsCache, started, calls, workspace, now, quietRun>>
     /\ ScanFrame /\ SnapFrame

\* updateConfig(config): the timer is restarted if the interval changed and a
\* timer is running
updateConfig(intervalChanged) ==
  /\ IF intervalChanged /\ snapshotTimer # NULL
     THEN \E id \in 1..MaxTimers : startPeriodicSnapshots(id)
     ELSE UNCHANGED <<snapshotTimer, intervals>>
  /\ UNCHANGED <<statsCache, started, calls, workspace, now, quietRun>>
  /\ ScanFrame /\ SnapFrame

\* a file of the workspace is created, edited or deleted
workspaceChanged ==
  /\ \E m \in Workspaces \ {workspace} : workspace' = m
  /\ quietRun' = "none"
  /\ UNCHANGED <<statsCache, snapshotTimer, intervals, started, calls, now>>
  /\ ScanFrame /\ SnapFrame

\* time passes
snapshotClock ==
  /\ now < MaxSnapTime
  /\ now' = now + 1
  /\ UNCHANGED <<statsCache, snapshotTimer, intervals, started, calls, workspace,
                 quietRun>>
  /\ ScanFrame /\ SnapFrame

NextSnapshot ==
  \/ \E c \in 1..MaxCalls : takeSnapshotOnStart(c)
  \/ \E c \in 1..MaxCalls : takeSnapshotAfterPrompt(c)
  \/ \E c \in 1..MaxCalls : snapshotInterval(c)
  \/ \E c \in 1..MaxCalls : scanDone(c)
  \/ \E c \in 1..MaxCalls : snapshotWritten(c)
  \/ callStopPeriodicSnapshots
  \/ \E b \in BOOLEAN : updateConfig(b)
  \/ workspaceChanged
  \/ snapshotClock

SpecSnapshot == Init /\ [][NextSnapshot]_vars

\* ------------------------------------------ AIPromptHandler: prompt records
\* A step of this part leaves everything but the prompt handlers alone.
PromptFrame ==
  UNCHANGED <<wvars, tvars, svars, called, previousWorkspaceFiles, currentFileMap,
              diffEvent, cvars>>

\* logPrompt: the PromptInfo built from the handler's config
PromptInfo(store, promptText) ==
  LET stored == store /\ Len(promptText) > 0
      info   == [length |-> Len(promptText),
                 hash   |-> IF promptText # <<>> THEN hashString(promptText) ELSE "",
                 stored |-> stored]
  IN IF stored
     THEN [f \in {"length", "hash", "stored", "text"} |->
             IF f = "text" THEN promptText ELSE info[f]]
     ELSE info

\* logPrompt({mode, note, promptText, autoExecute}) of handler h: the event
\* handed to this.logWriter.write (promptText and setting are history: what
\* the user typed and the setting at this moment)
logPromptEvent(h, mode, note, promptText) ==
  [written |-> TRUE,
   prompt |-> PromptInfo(prompters[h].storePromptText, promptText),
   mode |-> mode, note |-> note,
   promptText |-> promptText, setting |-> storePromptText]

\* startSession 430-436, resumeSession 887-893: new AIPromptHandler(config, ...)
\* with the config loaded from the settings
newAIPromptHandler ==
  /\ prompter = NULL /\ Len(prompters) < MaxPrompters
  /\ prompters' = Append(prompters,
                         [storePromptText |-> storePromptText, isLogging |-> TRUE])
  /\ prompter' = Len(prompters) + 1
  /\ UNCHANGED <<storePromptText, promptCalls, promptEvent>>
  /\ PromptFrame

\* pauseSession 807-819, stopSession: the session of the handler stops logging
\* and the module-level aiPromptHandler is set to null
dropAIPromptHandler ==
  /\ prompter # NULL
  /\ prompters' = [prompters EXCEPT ![prompter].isLogging = FALSE]
  /\ prompter' = NULL
  /\ UNCHANGED <<storePromptText, promptCalls, promptEvent>>
  /\ PromptFrame

\* the user changes the setting; handleConfigChange passes the new config to
\* the handler the module-level variable refers to
handleConfigChange(store) ==
  /\ store # storePromptText
  /\ storePromptText' = store
  /\ prompters' = IF prompter # NULL
                  THEN [prompters EXCEPT ![prompter].storePromptText = store]
                  ELSE prompters
  /\ UNCHANGED <<prompter, promptCalls, promptEvent>>
  /\ PromptFrame

\* the command markAIPrompt: aiPromptHandler.markAIPrompt() up to the quick pick
promptStart(c) ==
  /\ prompter # NULL /\ prompters[prompter].isLogging
  /\ promptCalls[c].pc = "idle"
  /\ promptCalls' = [promptCalls EXCEPT ![c] =
                       [IdlePromptCall EXCEPT !.pc = "mode", !.h = prompter]]
  /\ UNCHANGED <<storePromptText, prompters, prompter, promptEvent>>
  /\ PromptFrame

\* the quick pick is answered (cancelled: the call returns), the prompt box opens
promptModePicked(c, cancel, item) ==
  /\ promptCalls[c].pc = "mode"
  /\ promptCalls' = [promptCalls EXCEPT ![c] =
                       IF cancel THEN IdlePromptCall
                       ELSE [@ EXCEPT !.pc = "text", !.item = item]]
  /\ UNCHANGED <<storePromptText, prompters, prompter, promptEvent>>
  /\ PromptFrame

\* the prompt box is answered: cancelled, or refused when empty with
\* autoExecute, the call returns; with autoExecute the event is logged at
\* once; otherwise the memo box opens
promptTextEntered(c, cancel, promptText) ==
  LET fr == promptCalls[c] IN
  /\ fr.pc = "text"
  /\ IF cancel \/ (fr.item.autoExecute /\ promptText = <<>>)
     THEN /\ promptCalls' = [promptCalls EXCEPT ![c] = IdlePromptCall]
          /\ UNCHANGED promptEvent
     ELSE IF fr.item.autoExecute
     THEN /\ promptEvent' = logPromptEvent(fr.h, fr.item.mode, "", promptText)
          /\ promptCalls' = [promptCalls EXCEPT ![c] = IdlePromptCall]
     ELSE /\ promptCalls' = [promptCalls EXCEPT ![c].pc = "note",
                                                ![c].promptText = promptText]
          /\ UNCHANGED promptEvent
  /\ UNCHANGED <<storePromptText, prompters, prompter>>
  /\ PromptFrame

\* the memo box is answered: cancelled, the call returns; otherwise the event
\* is logged
promptNoteEntered(c, cancel, note) ==
  LET fr == promptCalls[c] IN
  /\ fr.pc = "note"
  /\ promptEvent' = IF cancel THEN promptEvent
                    ELSE logPromptEvent(fr.h, fr.item.mode, note, fr.promptText)
  /\ promptCalls' = [promptCalls EXCEPT ![c] = IdlePromptCall]
  /\ UNCHANGED <<storePromptText, prompters, prompter>>
  /\ PromptFrame

NextPrompt ==
  \/ newAIPromptHandler
  \/ dropAIPromptHandler
  \/ \E b \in BOOLEAN : handleConfigChange(b)
  \/ \E c \in 1..MaxPromptCalls : promptStart(c)
  \/ \E c \in 1..MaxPromptCalls, cancel \in BOOLEAN, item \in ModeItems :
       promptModePicked(c, cancel, item)
  \/ \E c \in 1..MaxPromptCalls, cancel \in BOOLEAN, text \in PromptTexts :
       promptTextEntered(c, cancel, text)
  \/ \E c \in 1..MaxPromptCalls, cancel \in BOOLEAN, note \in Notes :
       promptNoteEntered(c, cancel, note)

SpecPrompt == Init /\ [][NextPrompt]_vars

\* the log of a session that began MaxPast before this process started, was
\* paused and resumed once, a clock reading apart, and was paused again just
\* before the window was reloaded
PastLog ==
  LET s == 0 - MaxPast
      p == 0 - 1
  IN << <<Line(0 - 3, "session_start", 1, s, 0, 1, <<>>),
          Line(0 - 2, "session_pause", 1, s + 1, 1, 1, <<>>),
          Line(0 - 1, "session_resume", 1, s + 2, 1, 1, <<>>)>>,
        <<Line(0, "session_pause", 1, p, p - s - 1, 1, <<>>)>> >>

\* the window was reloaded while that session was paused: workspaceState holds
\* its record, the log is on disk, nothing is in memory
InitRestored ==
  /\ NoScan
  /\ writers = <<>> /\ streams = <<>>
  /\ handed = <<>>
  /\ issued = 0
  /\ tasks = [t \in Slots |-> IdleTask]
  /\ ready = {}
  /\ now = 0
  /\ sessionState = NULL /\ logWriter = NULL /\ editTracker = NULL
  /\ aiPromptHandler = NULL /\ snapshotHandler = NULL /\ fileWatcher = NULL
  /\ sess = <<>> /\ hs = <<>>
  /\ sidCount = 1
  /\ called = ""
  /\ savedSession =
       [sessionId |-> 1, workspaceId |-> WorkspaceId, logFilePath |-> 1,
        startTime |-> 0 - MaxPast, pausedAt |-> 0 - 1,
        totalPausedMs |-> 1, controlMode |-> "human"]
  /\ disk = [f \in Files |->
              IF f[1] = 1 /\ f[2] < 2 THEN PastLog[f[2] + 1] ELSE <<>>]

SpecRestored == InitRestored /\ [][Next]_vars

\* the log of a session that rotated twice before it was paused: files 0 and 1
\* hold MaxBytes each, file 2 holds the session_pause record
RotatedLog ==
  LET s == 0 - MaxPast
  IN << <<Line(0 - 6, "session_start", 1, s, 0, 1, <<>>),
          Line(0 - 5, "snapshot", 1, s, 0, 1, <<>>),
          Line(0 - 4, "edit", 1, s, NoTime, 1, <<>>)>>,
        <<Line(0 - 3, "edit", 1, s + 1, NoTime, 1, <<>>),
          Line(0 - 2, "edit", 1, s + 1, NoTime, 1, <<>>),
          Line(0 - 1, "edit", 1, s + 1, NoTime, 1, <<>>)>>,
        <<Line(0, "session_pause", 1, s + 2, 2, 1, <<>>)>> >>

\* the window was reloaded while that session was paused
InitRotated ==
  /\ NoScan
  /\ writers = <<>> /\ streams = <<>>
  /\ handed = <<>>
  /\ issued = 0
  /\ tasks = [t \in Slots |-> IdleTask]
  /\ ready = {}
  /\ now = 0
  /\ sessionState = NULL /\ logWriter = NULL /\ editTracker = NULL
  /\ aiPromptHandler = NULL /\ snapshotHandler = NULL /\ fileWatcher = NULL
  /\ sess = <<>> /\ hs = <<>>
  /\ sidCount = 1
  /\ called = ""
  /\ savedSession =
       [sessionId |-> 1, workspaceId |-> WorkspaceId, logFilePath |-> 1,
        startTime |-> 0 - MaxPast, pausedAt |-> 2 - MaxPast,
        totalPausedMs |-> 0, controlMode |-> "human"]
  /\ disk = [f \in Files |->
              IF f[1] = 1 /\ f[2] < 3 THEN RotatedLog[f[2] + 1] ELSE <<>>]

SpecRotated == InitRotated /\ [][Next]_vars

\* ------------------------------------------------------------ the claims
\* what is on disk, files in rotation-index order
OnDisk(w) ==
  ConcatUpTo([i \in 0..MaxIdx |-> disk[<<writers[w].base, i>>]], writers[w].fileIndex)

\* what is on disk or still queued for it, files in rotation-index order
OnDiskOrQueued(w) ==
  ConcatUpTo([i \in 0..MaxIdx |->
                disk[<<writers[w].base, i>>]
                  \o SelectStreams(streams, <<writers[w].base, i>>, 1)],
             writers[w].fileIndex)

Quiescent == \A k \in 1..Len(streams) : streams[k].q = <<>>

\* C1: the records on disk, files taken in rotation-index order, are the
\* written events in call order: nothing reordered, lost or duplicated, every
\* record whole in one file; a record not yet on disk is queued for the file
\* its position asks for.
C1_DiskOrderIsCallOrder ==
  /\ OnDiskOrQueued(1) = handed[1]
  /\ Quiescent => OnDisk(1) = handed[1]
  /\ \A f \in Files : f[2] > writers[1].fileIndex => disk[f] = <<>>

C1_Witness ==
  /\ Quiescent /\ writers[1].fileIndex >= 1 /\ Len(handed[1]) >= 3
  /\ disk[<<1, 1>>] # <<>>

\* the writes of writer w issued up to `mark` that still await their callback
Outstanding(w, mark) ==
  {id \in 1..mark :
     \E k \in 1..Len(streams) :
        streams[k].w = w /\ \E i \in 1..Len(streams[k].q) : streams[k].q[i].id = id}

\* C2: forceFlush() and dispose() do not return while a write() issued before
\* the call still awaits its completion callback, on whichever stream it is.
C2_FlushWaitsForWrites ==
  \A t \in Slots :
     tasks[t].op \in {"flush", "dispose"} /\ tasks[t].pc = "exit"
       => Outstanding(tasks[t].w, tasks[t].mark) = {}

\* a flush that had to wait for a write on a rotated-away stream has returned
C2_Witness ==
  \E t \in Slots :
     /\ tasks[t].op \in {"flush", "dispose"} /\ tasks[t].pc = "exit"
     /\ tasks[t].mark >= 3 /\ writers[1].fileIndex >= 1

\* every record some file holds
DiskIds == UNION {{disk[f][i].id : i \in 1..Len(disk[f])} : f \in Files}

\* the frame of pauseSession/stopSession in slot t has closed the stream of its
\* writer, or is closing it
Closing(t) ==
  /\ tasks[t].op \in {"pause", "stop"} /\ tasks[t].inDispose
  /\ tasks[t].pc \in {"cl_wait", "cl_fin", "pause_3", "stop_2"}

\* C3: when pauseSession or stopSession closes the stream of the writer, every
\* event handed to that writer before, by whichever producer, is in its file;
\* and no write() is ever refused by a stream that was already ended.
C3_TeardownAfterAllWrites ==
  /\ \A t \in Slots :
        Closing(t) => \A i \in 1..Len(handed[tasks[t].w]) :
                         handed[tasks[t].w][i].id \in DiskIds
  /\ \A k \in 1..Len(streams) : ~streams[k].destroyed

\* pauseSession has closed a writer that another producer wrote to after the
\* session_pause event
C3_Witness ==
  \E t \in Slots :
     /\ Closing(t) /\ tasks[t].pc = "pause_3"
     /\ \E i, j \in 1..Len(handed[tasks[t].w]) :
           /\ i < j
           /\ handed[tasks[t].w][i].ev = "session_pause"
           /\ handed[tasks[t].w][j].ev \in {"edit", "snapshot", "mode_change"}

\* the step in which resumeSession builds the session state
ResumeStep == \E t \in Slots : tasks[t].pc = "idle" /\ tasks'[t].op = "resume"

InMemoryPaused ==
  /\ sessionState # NULL /\ sess[sessionState].isPaused
  /\ sess[sessionState].sessionId = savedSession.sessionId

\* C4: resumeSession sets total_paused_ms to the saved total plus (resume time
\* - pausedAt), so that the elapsed time at the instant of the resume is the
\* elapsed time the session had at pausedAt, which is also what the paused
\* session still in memory shows.
C4_ResumeExcludesPausedTime ==
  [][ResumeStep =>
       LET so == sess'[sessionState'] IN
       /\ so.totalPausedMs = savedSession.totalPausedMs + (now - savedSession.pausedAt)
       /\ ElapsedOf(so, now) =
            savedSession.pausedAt - savedSession.startTime - savedSession.totalPausedMs
       /\ InMemoryPaused => ElapsedOf(so, now) = calculateElapsedMs]_vars

\* a session that had been paused before is resumed later than it was paused
C4_Witness ==
  \E t \in Slots :
     /\ tasks[t].op = "resume" /\ tasks[t].pc = "resume_cache"
     /\ savedSession # NoSaved /\ savedSession.totalPausedMs > 0
     /\ now > savedSession.pausedAt
     /\ sess[sessionState].totalPausedMs > savedSession.totalPausedMs
     /\ ElapsedOf(sess[sessionState], now) > 0

\* C5: while the session is active, calculateElapsedMs() never returns less
\* than it returned before.
C5_ElapsedMonotoneWhileActive ==
  [][IsLogging /\ IsLogging' /\ sessionState' = sessionState
       => calculateElapsedMs' >= calculateElapsedMs]_vars

IsPaused == sessionState # NULL /\ sess[sessionState].isPaused

\* C6: while the session is paused, calculateElapsedMs() returns the same
\* value at every call, the elapsed time at the pause timestamp.
C6_ElapsedFrozenWhilePaused ==
  [][IsPaused /\ IsPaused' /\ sessionState' = sessionState
       => calculateElapsedMs' = calculateElapsedMs]_vars

PauseInFlight == \E t \in Slots : tasks[t].op = "pause"

\* C7: the session state resumeSession builds has the session_id,
\* workspace_id, start time, log file path and control_mode the paused session
\* had when pauseSession completed.
C7_ResumePreservesIdentity ==
  [][ResumeStep /\ InMemoryPaused /\ ~PauseInFlight =>
       LET old == sess[sessionState]
           new == sess'[sessionState']
       IN /\ new.sessionId = old.sessionId
          /\ new.workspaceId = old.workspaceId
          /\ new.startTime = old.startTime
          /\ new.logFilePath = old.logFilePath
          /\ new.controlMode = old.controlMode]_vars

\* the log of the session with base name b, files in rotation-index order
LogOf(b) == ConcatUpTo([i \in 0..MaxIdx |-> disk[<<b, i>>]], MaxIdx)

\* C8: in a session's log the record after a session_pause is the
\* session_resume of the same session.
C8_ResumeFollowsPause ==
  \A b \in 1..MaxSid :
     \A i \in 1..(Len(LogOf(b)) - 1) :
        LogOf(b)[i].ev = "session_pause"
          => /\ LogOf(b)[i + 1].ev = "session_resume"
             /\ LogOf(b)[i + 1].sid = LogOf(b)[i].sid

\* the status of the session: active while logging, paused while the paused
\* state is in memory or its record is persisted, stopped otherwise
Status ==
  IF IsLogging THEN "active"
  ELSE IF IsPaused \/ savedSession # NoSaved THEN "paused"
  ELSE "stopped"

PausedSessionId ==
  IF IsPaused THEN sess[sessionState].sessionId ELSE savedSession.sessionId

\* C9: the status never goes from stopped to paused, and a paused session
\* becomes active again with the session_id it was paused with.
C9_StatusTransitions ==
  [][/\ ~(Status = "stopped" /\ Status' = "paused")
     /\ Status = "paused" /\ Status' = "active"
          => sess'[sessionState'].sessionId = PausedSessionId]_vars

\* the call just made was an invalid transition
InvalidCall ==
  \/ called' = "startSession" /\ IsLogging
  \/ called' = "pauseSession" /\ ~IsLogging
  \/ called' = "resumeSession" /\ (savedSession = NoSaved \/ IsLogging)

\* C10: startSession while a session is active, pauseSession while none is
\* active or while paused, resumeSession without a persisted record or while a
\* session is active leave the session state, the persisted record, the
\* writers and the files as they were.
C10_InvalidTransitionChangesNothing ==
  [][InvalidCall => UNCHANGED <<wvars, tvars, svars>>]_vars

\* resumeSession was refused while a persisted record existed and a session
\* with records in its log was active
C10_Witness ==
  /\ called = "resumeSession" /\ savedSession # NoSaved /\ IsLogging
  /\ \A t \in Slots : tasks[t].op # "resume"
  /\ issued >= 2

\* the session the persisted record describes is paused: in memory, or it is
\* not in memory at all
SavedIsPaused ==
  /\ ~IsLogging
  /\ sessionState # NULL =>
       /\ sess[sessionState].isPaused
       /\ sess[sessionState].sessionId = savedSession.sessionId

\* C11: the persisted record craftlog.savedSession is present only while the
\* session it describes is paused; it is absent whenever a session is active
\* and in the stopped state.
C11_SavedOnlyWhilePaused == savedSession # NoSaved => SavedIsPaused

\* a stopSession call that passes the guard of line 463: a session exists,
\* active or paused in memory
StopStep == \E t \in Slots : tasks[t].pc = "idle" /\ tasks'[t].op = "stop"

\* C12: stopSession invoked while a session exists (active, or paused in
\* memory) hands a session_end record of that session to the session's writer
\* before anything of the session is discarded.
C12_StopWritesSessionEnd ==
  [][StopStep =>
       /\ logWriter # NULL
       /\ issued' = issued + 1
       /\ LET rec == handed'[logWriter][Len(handed'[logWriter])]
          IN /\ rec.ev = "session_end"
             /\ rec.sid = sess[sessionState].sessionId
             /\ writers[logWriter].base = sess[sessionState].logFilePath]_vars

\* stopSession returns: its frame runs the statements after
\* `await logWriter.dispose()` to the end
StopReturns ==
  \E t \in Slots : /\ tasks[t].op = "stop" /\ tasks[t].pc = "stop_2"
                   /\ tasks'[t].pc = "idle"
                   /\ sessionState # NULL

\* the clean stopped baseline
StoppedBaseline ==
  /\ sessionState = NULL /\ logWriter = NULL /\ editTracker = NULL
  /\ aiPromptHandler = NULL /\ snapshotHandler = NULL /\ fileWatcher = NULL
  /\ \A h \in 1..Len(hs) : ~hs[h].timer /\ hs[h].edDisposed /\ hs[h].fwDisposed
  /\ savedSession = NoSaved

\* C13: when stopSession returns from an active or paused session the system is
\* at the clean stopped baseline: no session state, writer, edit tracker,
\* snapshot handler, file watcher or periodic timer, and no persisted record.
C13_StopLeavesBaseline == [][StopReturns => StoppedBaseline']_vars

\* the records handed to writer w in the current step
NewRecords(w) ==
  SubSeq(handed'[w], (IF w <= Len(handed) THEN Len(handed[w]) ELSE 0) + 1,
         Len(handed'[w]))

\* the step changes the control_mode of a session object
ModeChanged ==
  \E g \in 1..Len(sess) : sess'[g].controlMode # sess[g].controlMode

ModeChanges(sid) ==
  UNION {{handed[w][i] : i \in {j \in 1..Len(handed[w]) :
                                  /\ handed[w][j].ev = "mode_change"
                                  /\ handed[w][j].sid = sid}} :
         w \in 1..Len(handed)}

\* the `to` field of the last of them, human when there is none
LastMode(sid) ==
  IF ModeChanges(sid) = {} THEN "human"
  ELSE (CHOOSE r \in ModeChanges(sid) : \A q \in ModeChanges(sid) : q.id <= r.id).x[2]

\* C15: whenever a session is active, its control_mode is the `to` field of the
\* last mode_change record written for its session_id, or human if none was
\* written, across pause and resume too.
C15_ModeIsLastModeChange ==
  IsLogging => sess[sessionState].controlMode = LastMode(sess[sessionState].sessionId)

\* an ai_prompt record of the current session is handed to its writer in this
\* step while control_mode is human
PromptLoggedInHumanMode ==
  /\ sessionState # NULL /\ logWriter # NULL
  /\ sess[sessionState].controlMode = "human"
  /\ \E i \in 1..Len(NewRecords(logWriter)) :
       /\ NewRecords(logWriter)[i].ev = "ai_prompt"
       /\ NewRecords(logWriter)[i].sid = sess[sessionState].sessionId

\* C16: when an AI prompt is logged while control_mode is human, the log
\* receives policy_violation{kind = ai_action_in_human_mode} and then
\* mode_change{from = human, to = ai, reason = ai_prompt} and control_mode
\* becomes ai, all in the step that logs the prompt, hence before any later
\* edit record.
C16_PromptInHumanMode ==
  [][PromptLoggedInHumanMode =>
       /\ \E i, j \in 1..Len(NewRecords(logWriter)) :
            /\ i < j
            /\ NewRecords(logWriter)[i].ev = "policy_violation"
            /\ NewRecords(logWriter)[i].x = <<"ai_action_in_human_mode">>
            /\ NewRecords(logWriter)[j].ev = "mode_change"
            /\ NewRecords(logWriter)[j].x = <<"human", "ai", "ai_prompt">>
       /\ sess'[sessionState].controlMode = "ai"]_vars

\* the EventHeader fields of record r: ts, elapsed_ms, session_id and event are
\* fields of the record (elapsed_ms is absent when el is NoTime); workspace_id
\* is written by every producer next to session_id, from the same session
\* object
HasHeader(r) ==
  /\ r.ts \in Int
  /\ r.el # NoTime
  /\ r.sid \in 1..MaxSid
  /\ \E g \in 1..Len(sess) :
       sess[g].sessionId = r.sid /\ sess[g].workspaceId = WorkspaceId
  /\ r.ev \in {"session_start", "session_end", "session_pause", "session_resume",
               "snapshot", "workspace_diff", "edit", "ai_prompt", "note",
               "file_create", "file_delete", "mode_change", "policy_violation"}

\* C17: every record handed to the log, whatever its producer, carries the
\* header fields ts, elapsed_ms, session_id, workspace_id and event.
C17_EveryRecordHasHeader ==
  \A w \in 1..Len(handed) : \A i \in 1..Len(handed[w]) : HasHeader(handed[w][i])

\* a write() call on writer w: one more record is handed to it
WriteStep(w) == Len(handed'[w]) = Len(handed[w]) + 1

\* C18 (as stated): once the cumulative byte size of the events written exceeds
\* the configured maximum, a second file, named with the suffix _1, exists.
C18_SecondFileOnceExceeded ==
  SumSz(handed[1]) > MaxBytes =>
    \E k \in 1..Len(streams) : streams[k].file = <<writers[1].base, 1>>

\* C18 (amended): the size check precedes the write.  A write() issued when the
\* byte counter has reached the configured maximum goes to a new file whose
\* rotation index is the old one plus one (the first is _1), named from the
\* original base name, and the byte counter restarts at zero and then counts
\* that record alone; any other write stays in the current file, even when it
\* takes the file beyond the maximum.
C18_RotationAtNextWrite ==
  [][\A w \in 1..Len(writers) : WriteStep(w) =>
       LET rec == handed'[w][Len(handed'[w])]
           k   == writers'[w].writeStream
       IN /\ writers'[w].base = writers[w].base
          /\ streams'[k].file = <<writers[w].base, writers'[w].fileIndex>>
          /\ IF writers[w].currentFileSize >= MaxBytes
             THEN /\ writers'[w].fileIndex = writers[w].fileIndex + 1
                  /\ writers'[w].currentFileSize = rec.sz
                  /\ k > Len(streams)
             ELSE /\ writers'[w].fileIndex = writers[w].fileIndex
                  /\ writers'[w].currentFileSize =
                       writers[w].currentFileSize + rec.sz]_vars

\* two rotations have happened, and records reached the files _1 and _2
C18_Witness ==
  /\ writers[1].fileIndex = 2
  /\ disk[<<writers[1].base, 1>>] # <<>>
  /\ disk[<<writers[1].base, 2>>] # <<>>

IsPrefix(a, b) == Len(a) <= Len(b) /\ SubSeq(b, 1, Len(a)) = a

\* C19: no step truncates or rewrites a log file: what a file holds before a
\* step is a prefix of what it holds after it.  Hence the content a file had
\* when a LogWriter was opened on it (as resumeSession does with the original
\* log path) is a prefix of its content after any later sequence of writes.
C19_OpenNeverTruncates ==
  [][\A f \in Files : IsPrefix(disk[f], disk'[f])]_vars

\* the writer opened by resumeSession on the restored log has appended the
\* resume record behind the records its file already held
C19_Witness ==
  /\ Len(disk[<<1, 1>>]) > Len(PastLog[2])
  /\ SubSeq(disk[<<1, 1>>], 1, Len(PastLog[2])) = PastLog[2]
  /\ disk[<<1, 0>>] = PastLog[1]
  /\ \E i \in 1..Len(disk[<<1, 1>>]) :
       disk[<<1, 1>>][i].ev = "session_resume" /\ disk[<<1, 1>>][i].id > 0

\* the paths of a file map
PathsOf(m) == {m[i].path : i \in 1..Len(m)}

\* the sum of f[p] over the paths p in S
RECURSIVE SumOver(_, _)
SumOver(S, f) ==
  IF S = {} THEN 0
  ELSE LET p == CHOOSE q \in S : TRUE IN f[p] + SumOver(S \ {p}, f)

Pos(n) == IF n > 0 THEN n ELSE 0

\* the reference diff of the file maps prev and cur
RefDiff(prev, cur) ==
  LET added   == PathsOf(cur) \ PathsOf(prev)
      removed == PathsOf(prev) \ PathsOf(cur)
      common  == PathsOf(cur) \cap PathsOf(prev)
  IN [added_paths   |-> added,
      removed_paths |-> removed,
      added_files   |-> Cardinality(added),
      removed_files |-> Cardinality(removed),
      added_loc     |-> SumOver(added, [p \in added |-> Get(cur, p).loc])
                        + SumOver(common, [p \in common |->
                                    Pos(Get(cur, p).loc - Get(prev, p).loc)]),
      removed_loc   |-> SumOver(removed, [p \in removed |-> Get(prev, p).loc])
                        + SumOver(common, [p \in common |->
                                    Pos(Get(prev, p).loc - Get(cur, p).loc)]),
      added_bytes   |-> SumOver(added, [p \in added |-> Get(cur, p).bytes])
                        + SumOver(common, [p \in common |->
                                    Pos(Get(cur, p).bytes - Get(prev, p).bytes)]),
      removed_bytes |-> SumOver(removed, [p \in removed |-> Get(prev, p).bytes])
                        + SumOver(common, [p \in common |->
                                    Pos(Get(prev, p).bytes - Get(cur, p).bytes)])]

\* event ev carries exactly the reference diff r: the numbers, and each path
\* list holds the paths of the reference once each
CarriesDiff(ev, r) ==
  /\ ev.added_files = r.added_files /\ ev.removed_files = r.removed_files
  /\ ev.added_loc = r.added_loc /\ ev.removed_loc = r.removed_loc
  /\ ev.added_bytes = r.added_bytes /\ ev.removed_bytes = r.removed_bytes
  /\ Len(ev.added_paths) = r.added_files
  /\ {ev.added_paths[i] : i \in 1..Len(ev.added_paths)} = r.added_paths
  /\ Len(ev.removed_paths) = r.removed_files
  /\ {ev.removed_paths[i] : i \in 1..Len(ev.removed_paths)} = r.removed_paths

\* C20: for non-empty previous and current file maps the diff computed by
\* emitWorkspaceDiff equals the reference: added/removed paths are the paths
\* only in current/previous, added/removed files their counts, added/removed
\* loc the loc of the added/removed paths plus the positive/negative loc deltas
\* of the common paths, and likewise, independently, for bytes.  The event is
\* written exactly when the reference is not all zero.
C20_DiffEqualsReference ==
  [][(Len(previousWorkspaceFiles) > 0 /\ Len(currentFileMap') > 0) =>
       LET r == RefDiff(previousWorkspaceFiles, currentFileMap')
       IN /\ CarriesDiff(diffEvent', r)
          /\ diffEvent'.emitted <=>
               \/ r.added_files > 0 \/ r.removed_files > 0
               \/ r.added_loc > 0 \/ r.removed_loc > 0
               \/ r.added_bytes > 0 \/ r.removed_bytes > 0]_vars

\* the example of the claim in small numbers: of the files A and B one grew by
\* one line and neither shrank, and C (2 loc) is new: added_loc = 3,
\* removed_loc = 0, added_files = 1, added_paths = [C]
C20_Witness ==
  /\ diffEvent.emitted
  /\ diffEvent.added_paths = <<"C">> /\ diffEvent.added_files = 1
  /\ diffEvent.added_loc = 3 /\ diffEvent.removed_loc = 0
  /\ diffEvent.removed_files = 0
  /\ PathsOf(previousWorkspaceFiles) = {"A", "B", "C"}
  /\ Get(previousWorkspaceFiles, "C").loc = 2

\* ---------------------------------------------------------------- C21
\* the takeSnapshot() call in slot c hands a workspace_diff record to the
\* writer in this step
WritesDiff(c) ==
  calls[c].pc = "git" /\ calls'[c].pc = "idle" /\ diffEvent'.emitted
SixFieldsNonZero(ev) ==
  \/ ev.added_files # 0 \/ ev.removed_files # 0
  \/ ev.added_loc # 0 \/ ev.removed_loc # 0
  \/ ev.added_bytes # 0 \/ ev.removed_bytes # 0
\* C21: a workspace_diff record is written only with at least one of its six
\* fields non-zero, and only by a takeSnapshot that is not the first one to
\* complete its scan on the handler: the first scan never writes one.
C21_DiffOnlyNonZeroAfterFirstScan ==
  [][\A c \in 1..MaxCalls :
       WritesDiff(c) => scanned /\ SixFieldsNonZero(diffEvent')]_vars
\* a later scan has written a workspace_diff record
C21_Witness == scanned /\ diffEvent.emitted /\ SixFieldsNonZero(diffEvent)

\* ---------------------------------------------------------------- C22
\* the call in slot c completes as the second of two calls that ran one after
\* the other, alone, with no change of the workspace since the first began
SecondQuietCallCompletes(c) ==
  /\ calls[c].pc = "git" /\ calls'[c].pc = "idle"
  /\ quietRun \in {"second", "secondStale"}
\* C22: of two takeSnapshot() calls run one after the other with no
\* filesystem change between them, the second computes zero added and removed
\* totals and writes no workspace_diff record, whether it reuses the cached
\* scan or rescans.
C22_SecondCallWritesNoDiff ==
  [][\A c \in 1..MaxCalls :
       SecondQuietCallCompletes(c) => diffEvent' = NoDiff]_vars
\* C22 (amended): if moreover the scan the first call used showed the files as
\* they are (it was not a cached scan older than the last change), the second
\* call has the same file map and writes no workspace_diff record.
C22_SecondCallAfterCurrentScan ==
  [][\A c \in 1..MaxCalls :
       (SecondQuietCallCompletes(c) /\ quietRun = "second") =>
         /\ calls[c].fileMap = previousWorkspaceFiles
         /\ diffEvent' = NoDiff]_vars
\* a second call of such a pair is running, once on the cache and once on a
\* scan of its own, after a first call that left a non-empty previous map
C22_Witness ==
  /\ quietRun = "second" /\ previousWorkspaceFiles # <<>>
  /\ \E c \in 1..MaxCalls : calls[c].pc = "git" /\ calls[c].rescan
C22_WitnessCached ==
  /\ quietRun = "second" /\ previousWorkspaceFiles # <<>>
  /\ \E c \in 1..MaxCalls : calls[c].pc = "git" /\ ~calls[c].rescan

\* ---------------------------------------------------------------- C23
\* the takeSnapshot() calls between their start and their end
InFlight == {c \in 1..MaxCalls : calls[c].pc # "idle"}
\* C23: snapshot execution is serialized: a takeSnapshot started by the timer
\* and one started on demand, or two started by the timer, never overlap (no
\* call starts, reads the cache or replaces the previous map between the
\* start and the end of another).
C23_SnapshotsNeverOverlap == Cardinality(InFlight) <= 1

\* ---------------------------------------------------------------- C24
\* the takeSnapshot() call in slot c starts in this step
Starts(c) == calls[c].pc = "idle" /\ calls'[c].pc # "idle"
\* C24: a takeSnapshot rescans the workspace exactly when there is no cached
\* scan or the cached scan is at least the validity window old; the
\* takeSnapshot that follows invalidateCache() always rescans.
C24_RescanExactlyWhenCacheOutdated ==
  [][\A c \in 1..MaxCalls :
       Starts(c) =>
         /\ calls'[c].rescan <=>
              (~statsCache'.valid \/ now - statsCache'.timestamp >= CacheValidityMs)
         /\ calls'[c].rescan <=> calls'[c].pc = "scan"
         /\ calls'[c].origin = "prompt" => calls'[c].rescan]_vars
\* a call after invalidateCache() rescans although the scan cached before was
\* within its validity window; a call reuses a cached scan; a call rescans
\* because the cached scan has reached the age of the window
C24_Witness ==
  \E c \in 1..MaxCalls :
    /\ calls[c].pc = "scan" /\ calls[c].origin = "prompt"
    /\ ~statsCache.valid /\ scanned
C24_WitnessReuse ==
  \E c \in 1..MaxCalls :
    calls[c].pc = "git" /\ ~calls[c].rescan /\ now - statsCache.timestamp = CacheValidityMs - 1
C24_WitnessExpired ==
  \E c \in 1..MaxCalls :
    /\ calls[c].pc = "scan" /\ calls[c].origin = "timer"
    /\ statsCache.valid /\ now - statsCache.timestamp = CacheValidityMs

\* ---------------------------------------------------------------- C25
\* this.snapshotTimer is null from a stopPeriodicSnapshots() until the next
\* startPeriodicSnapshots(), and before the first one
TimerStopped == snapshotTimer = NULL
\* C25: stopPeriodicSnapshots is immediate and idempotent: while the timer is
\* stopped no timer-triggered takeSnapshot starts, stopping a stopped timer
\* changes nothing, and after startPeriodicSnapshots exactly one interval
\* timer is live, never two.
C25_StopImmediateOneTimer ==
  /\ [](/\ Cardinality(intervals) <= 1
        /\ ~TimerStopped => intervals = {snapshotTimer}
        /\ TimerStopped =>
             stopPeriodicSnapshots(snapshotTimer, intervals)
               = [timer |-> snapshotTimer, ivs |-> intervals])
  /\ [][\A c \in 1..MaxCalls :
          (Starts(c) /\ calls'[c].origin = "timer") => ~TimerStopped]_vars
\* the timer was started and then stopped while a snapshot it had triggered
\* was still running
C25_Witness ==
  /\ started /\ TimerStopped /\ intervals = {}
  /\ \E c \in 1..MaxCalls : calls[c].origin = "timer"

\* ---------------------------------------------------------------- C30
\* the takeSnapshot() call in slot c returns in this step
Completes(c) == calls[c].pc = "git" /\ calls'[c].pc = "idle"
\* C30: when a takeSnapshot that completed its scan returns, the retained
\* previous file map is exactly the file map of that scan (no entry of the
\* older map survives), whether or not a workspace_diff record was written.
C30_PreviousMapReplacedWholesale ==
  [][\A c \in 1..MaxCalls :
       Completes(c) =>
         /\ previousWorkspaceFiles' = calls[c].fileMap
         /\ currentFileMap' = calls[c].fileMap]_vars
\* a snapshot has replaced a map holding a file that its own scan did not find
C30_Witness ==
  /\ scanned /\ previousWorkspaceFiles = currentFileMap
  /\ diffEvent.emitted /\ diffEvent.removed_files > 0
\* a snapshot has replaced the map without writing a workspace_diff record
C30_WitnessNoDiff ==
  /\ scanned /\ previousWorkspaceFiles = currentFileMap
  /\ previousWorkspaceFiles # <<>> /\ ~diffEvent.emitted

\* ---------------------------------------------------------------- C26
\* C26: a failed write still decrements the pending-write count, so with every
\* issued write completing (with success or with an error) every forceFlush()
\* and every dispose() call eventually returns: a write failure never makes
\* flush or close hang.
C26_FlushAndDisposeReturn ==
  \A t \in Slots : [](tasks[t].op \in {"flush", "dispose"} => <>Idle(t))

\* ---------------------------------------------------------------- C27
\* C27: an ai_prompt record contains the prompt text only if the
\* storePromptText setting in force when it is logged is true and the prompt
\* is non-empty; otherwise it carries only the length and the hash of the
\* prompt, with stored = false and no text field.
C27_TextOnlyWhenSettingAllows ==
  promptEvent.written =>
    IF promptEvent.setting /\ promptEvent.promptText # <<>>
    THEN "text" \in DOMAIN promptEvent.prompt => promptEvent.prompt.stored
    ELSE promptEvent.prompt =
           [length |-> Len(promptEvent.promptText),
            hash   |-> IF promptEvent.promptText # <<>>
                       THEN hashString(promptEvent.promptText) ELSE "",
            stored |-> FALSE]

\* ---------------------------------------------------------------- C28
\* the record a logPolicyViolation(kind, detail) call has to write now
PolicyRecord(kind, detail) ==
  Line(issued + 1, "policy_violation", sess[sessionState].sessionId, now,
       calculateElapsedMs, 1, <<kind, sess[sessionState].controlMode, detail>>)
C28_WitnessNoWriter ==
  /\ \E kind \in PolicyKinds, detail \in PolicyDetails : called = PolicyCall(kind, detail)
  /\ logWriter = NULL /\ sessionState # NULL

\* ---------------------------------------------------------------- C29
\* C29: in every reachable state, last_pause_time is non-null if and only if
\* the session is paused (isPaused true and isLogging false).
C29_PauseTimeIffPaused ==
  sessionState # NULL =>
    (sess[sessionState].lastPauseTime # NoTime
       <=> (sess[sessionState].isPaused /\ ~sess[sessionState].isLogging))

\* ---------------------------------------------------------------- C31
\* the records of session 1 on disk, files taken in rotation-index order
SessionLog == ConcatUpTo([i \in 0..MaxIdx |-> disk[<<1, i>>]], MaxIdx)

\* C31: after the resume of a session whose log had rotated before the pause,
\* every record written after the resume is in a file whose rotation index is
\* at least that of every record written before the pause, and the files
\* concatenated in rotation-index order hold the records in emission order.
C31_FileOrderAcrossResume ==
  /\ \A i, j \in 0..MaxIdx :
       \A a \in 1..Len(disk[<<1, i>>]), b \in 1..Len(disk[<<1, j>>]) :
         (disk[<<1, i>>][a].id <= 0 /\ disk[<<1, j>>][b].id > 0) => i <= j
  /\ \A a, b \in 1..Len(SessionLog) : a < b => SessionLog[a].id < SessionLog[b].id

\* ---------------------------------------------------------------- C32
\* C32: with every issued write completing, a forceFlush() call that found
\* backpressure recorded (it waits for the drain promise) eventually gets past
\* it and returns, also when the writer rotated to a new file and ended the
\* old stream before the old stream drained.
C32_DrainWaitEnds ==
  \A t \in Slots :
    [](tasks[t].pc = "ff_drain" => <>(tasks[t].pc \notin {"ff_drain", "ff_drained",
                                                          "ff_pend", "ff_after"}))

\* ---------------------------------------------------------------- C33
\* C33: whenever the in-memory session is paused, the persisted record
\* craftlog.savedSession exists and carries that session's id, so the paused
\* session can be resumed; under every interleaving of the session commands.
C33_PausedHasSavedRecord ==
  (sessionState # NULL /\ sess[sessionState].isPaused)
    => (savedSession # NoSaved
          /\ savedSession.sessionId = sess[sessionState].sessionId)

\* ---------------------------------------------------------------- C34
\* no startSession, pauseSession, resumeSession or stopSession call is running
NoLifecycleCall ==
  \A t \in Slots : tasks[t].op \notin {"start", "pause", "resume", "stop"}

\* the streams that are open (not ended) on `file`
OpenOn(file) ==
  {k \in 1..Len(streams) :
     streams[k].file = file /\ ~streams[k].ending /\ ~streams[k].destroyed}

\* C34: whenever no lifecycle operation is in progress, the session is active
\* if and only if a writer, an edit tracker, a snapshot handler and a file
\* watcher exist, a paused or stopped session has none of them, no log file has
\* two open streams, and every handler that is no longer referenced has been
\* disposed.
C34_ResourceOwnership ==
  NoLifecycleCall =>
    /\ IsLogging => (logWriter # NULL /\ editTracker # NULL
                       /\ snapshotHandler # NULL /\ fileWatcher # NULL)
    /\ ~IsLogging => (logWriter = NULL /\ editTracker = NULL
                        /\ snapshotHandler = NULL /\ fileWatcher = NULL)
    /\ \A f \in Files : Cardinality(OpenOn(f)) <= 1
    /\ \A h \in 1..Len(hs) :
         (h # editTracker => hs[h].edDisposed)
           /\ (h # fileWatcher => hs[h].fwDisposed)
           /\ (h # snapshotHandler => ~hs[h].timer)

\* ---------------------------------------------------------------- C35
\* no session is active and no pauseSession or stopSession call is running:
\* the pause or stop has returned and no resume has begun
AtRest ==
  /\ ~IsLogging
  /\ \A t \in Slots : tasks[t].op \notin {"pause", "stop", "start", "resume"}

\* C35: after pauseSession or stopSession has returned and until a session is
\* resumed or started, no record is handed to a writer and no stream is
\* opened (a takeSnapshot that was in flight when the pause or stop began does
\* not write through the disposed writer), and a session_end record is the
\* last record its session's writer was given.
C35_NoWriteAfterPauseOrStop ==
  /\ [](\A w \in 1..Len(handed) :
          (\E i \in 1..Len(handed[w]) : handed[w][i].ev = "session_end")
            => handed[w][Len(handed[w])].ev = "session_end")
  /\ [][(AtRest /\ AtRest') => (handed' = handed /\ Len(streams') = Len(streams))]_vars

\* ---------------------------------------------------------------- C36
\* the positions of the records of kind ev in log L
Where(L, ev) == {i \in 1..Len(L) : L[i].ev = ev}

\* C36: in the log of a session, once every issued write is on disk, the
\* lifecycle records are well-bracketed: session_start is the first record
\* and occurs once, between two session_pause records there is a
\* session_resume and between two session_resume records a session_pause, the
\* first of them is a session_pause, and session_end occurs at most once.
C36_LifecycleWellBracketed ==
  \A b \in 1..MaxSid :
    LET L == LogOf(b) IN
    Quiescent =>
    /\ L # <<>> => Where(L, "session_start") = {1}
    /\ \A i, j \in Where(L, "session_pause") :
         i < j => \E k \in Where(L, "session_resume") : i < k /\ k < j
    /\ \A i, j \in Where(L, "session_resume") :
         i < j => \E k \in Where(L, "session_pause") : i < k /\ k < j
    /\ \A j \in Where(L, "session_resume") :
         \E i \in Where(L, "session_pause") : i < j
    /\ Cardinality(Where(L, "session_end")) <= 1

\* ---------------------------------------------------------------- C37
\* C37: in the log of a session, once every issued write is on disk, the
\* elapsed_ms values of the records that carry the field never decrease in
\* file order, across pause and resume as well.
C37_ElapsedNonDecreasingInLog ==
  \A b \in 1..MaxSid :
    LET L == LogOf(b) IN
    Quiescent =>
      \A i, j \in 1..Len(L) :
        (i < j /\ L[i].el # NoTime /\ L[j].el # NoTime) => L[i].el <= L[j].el

\* ---------------------------------------------------------------- C38
\* the totals of a scan: calculateStatsWithFileMap adds up loc and bytes of
\* the files it puts in the map
TotalLoc(m) == SumOver(PathsOf(m), [p \in PathsOf(m) |-> Get(m, p).loc])
TotalBytes(m) == SumOver(PathsOf(m), [p \in PathsOf(m) |-> Get(m, p).bytes])

Differs(m, n) ==
  \/ PathsOf(m) # PathsOf(n)
  \/ \E p \in PathsOf(m) \cap PathsOf(n) : Get(m, p) # Get(n, p)

\* C39: every takeSnapshot that completes after the first scan of its handler
\* with a file map that differs from the retained previous scan writes a
\* workspace_diff record, also when the previous scan found no files.
C39_DiffComplete ==
  [][\A c \in 1..MaxCalls :
       (Completes(c) /\ scanned /\ Differs(calls[c].fileMap, previousWorkspaceFiles))
         => diffEvent'.emitted]_vars

\* ---------------------------------------------------------------- C40
\* C40: a record is appended to a log file only while the size of the file on
\* disk is below the configured maximum, so no log file is larger than the
\* maximum plus the size of its last record; before and after a pause and
\* resume.
C40_SizeCap ==
  \A f \in Files :
    disk[f] # <<>> => FileSize(disk, f) - disk[f][Len(disk[f])].sz < MaxBytes

====
